---- MODULE Spec2Model ----
(***************************************************************************)
(* Docblock validation rules of the frakto ESLint plugin                   *)
(* (src/src/tools/eslint-plugin): the discovery layer of utils.mjs         *)
(* (getDocblock, getDocblockData, normalizeNode, normalizeTypes,           *)
(* getTagRange) and the validators built on it.                            *)
(*                                                                         *)
(* Text is modelled as it is in the program: a string is a sequence of     *)
(* one-character strings, and the JavaScript string methods the rules use  *)
(* (indexOf, includes, replace with a string pattern, split, trim,         *)
(* toLowerCase, padEnd, join) are operators on such sequences.             *)
(***************************************************************************)
EXTENDS Integers, Sequences, FiniteSets, TLC

(***************************************************************************)
(* JavaScript string primitives                                            *)
(***************************************************************************)

\* s.startsWith(t, from): t occurs in s at the 1-based position from.
OccursAt(s, t, from) ==
    /\ from >= 1
    /\ from + Len(t) - 1 <= Len(s)
    /\ \A k \in 1..Len(t) : s[from + k - 1] = t[k]

\* s.indexOf(t, from), 1-based; 0 when t does not occur (JavaScript's -1).
IndexOfFrom(s, t, from) ==
    LET hits == {i \in from..(Len(s) - Len(t) + 1) : OccursAt(s, t, i)}
    IN IF hits = {} THEN 0 ELSE CHOOSE i \in hits : \A j \in hits : i <= j

IndexOf(s, t) == IndexOfFrom(s, t, 1)

Includes(s, t) == IndexOf(s, t) # 0

StartsWith(s, t) == OccursAt(s, t, 1)

EndsWith(s, t) == Len(t) <= Len(s) /\ OccursAt(s, t, Len(s) - Len(t) + 1)

\* s.replace(pat, rep) with a string pattern: the first occurrence only.
ReplaceFirst(s, pat, rep) ==
    LET i == IndexOf(s, pat)
    IN IF i = 0 THEN s
       ELSE SubSeq(s, 1, i - 1) \o rep \o SubSeq(s, i + Len(pat), Len(s))

IsSpace(c) == c \in {" ", "\t", "\n"}

RECURSIVE TrimStart(_)
TrimStart(s) ==
    IF s # <<>> /\ IsSpace(Head(s)) THEN TrimStart(Tail(s)) ELSE s

RECURSIVE TrimEnd(_)
TrimEnd(s) ==
    IF s # <<>> /\ IsSpace(s[Len(s)]) THEN TrimEnd(SubSeq(s, 1, Len(s) - 1)) ELSE s

Trim(s) == TrimEnd(TrimStart(s))

\* s.split(sep) for a one-character separator: always at least one piece.
RECURSIVE Split(_, _)
Split(s, sep) ==
    LET i == IndexOf(s, <<sep>>)
    IN IF i = 0 THEN <<s>>
       ELSE <<SubSeq(s, 1, i - 1)>> \o Split(SubSeq(s, i + 1, Len(s)), sep)

\* parts.join(sep)
RECURSIVE Join(_, _)
Join(parts, sep) ==
    IF parts = <<>> THEN <<>>
    ELSE IF Len(parts) = 1 THEN parts[1]
    ELSE parts[1] \o sep \o Join(Tail(parts), sep)

UpperCase ==
    [c \in {"A", "D", "E", "F", "O", "P", "S", "T", "W"} |->
        CASE c = "A" -> "a" [] c = "D" -> "d" [] c = "E" -> "e" [] c = "F" -> "f"
          [] c = "O" -> "o" [] c = "P" -> "p" [] c = "S" -> "s" [] c = "T" -> "t"
          [] c = "W" -> "w"]

\* s.toLowerCase()
ToLowerCase(s) ==
    [i \in 1..Len(s) |-> IF s[i] \in DOMAIN UpperCase THEN UpperCase[s[i]] ELSE s[i]]

RECURSIVE Spaces(_)
Spaces(n) == IF n <= 0 THEN <<>> ELSE <<" ">> \o Spaces(n - 1)

\* s.padEnd(n, ' ')
PadEnd(s, n) == s \o Spaces(n - Len(s))

RECURSIVE Concat(_)
Concat(parts) == IF parts = <<>> THEN <<>> ELSE Head(parts) \o Concat(Tail(parts))

\* All sequences of 1..n elements of S.
RECURSIVE SeqsUpTo(_, _)
SeqsUpTo(S, n) ==
    IF n = 0 THEN {<<>>}
    ELSE LET shorter == SeqsUpTo(S, n - 1)
         IN shorter \cup {Append(s, x) : s \in shorter, x \in S}

(***************************************************************************)
(* Type names                                                              *)
(***************************************************************************)
sAny       == <<"a", "n", "y">>
sVoid      == <<"v", "o", "i", "d">>
sMixed     == <<"m", "i", "x", "e", "d">>
sUndefined == <<"u", "n", "d", "e", "f", "i", "n", "e", "d">>
sArrayLc   == <<"a", "r", "r", "a", "y">>
sArray     == <<"A", "r", "r", "a", "y">>
sDate      == <<"D", "a", "t", "e">>
sError     == <<"E", "r", "r", "o", "r">>
sPromise   == <<"P", "r", "o", "m", "i", "s", "e">>
sNumber    == <<"n", "u", "m", "b", "e", "r">>
sString    == <<"s", "t", "r", "i", "n", "g">>
sObject    == <<"o", "b", "j", "e", "c", "t">>
sBoolean   == <<"b", "o", "o", "l", "e", "a", "n">>
sFunction  == <<"f", "u", "n", "c", "t", "i", "o", "n">>
sFunctionCall == sFunction \o <<"C", "a", "l", "l">>
sNull      == <<"n", "u", "l", "l">>
sFoo       == <<"F", "o", "o">>
sBrackets  == <<"[", "]">>
sArrayOpen == sArray \o <<"<">>

\* utils.mjs commonTypes: the keys are looked up by the lower-cased type, so
\* the camel-case key functionCall is never hit.
commonTypes ==
    [k \in {ToLowerCase(sDate), ToLowerCase(sError), ToLowerCase(sPromise), sAny, sVoid,
            sNumber, sString, sObject, sBoolean, sFunction, sFunctionCall} |->
        CASE k = ToLowerCase(sDate)    -> sDate
          [] k = ToLowerCase(sError)   -> sError
          [] k = ToLowerCase(sPromise) -> sPromise
          [] OTHER -> k]

\* commonTypes is an object literal: commonTypes[lowerType] also finds the
\* properties it inherits from Object.prototype.  Two of them have a
\* lower-case name, and their values are not strings: the Object constructor
\* and Object.prototype itself.  Each is written here as a text of one
\* element, what String() gives for it.
sConstructor == <<"c", "o", "n", "s", "t", "r", "u", "c", "t", "o", "r">>
sProto       == <<"_", "_", "p", "r", "o", "t", "o", "_", "_">>

ObjectConstructor == <<"function Object() { [native code] }">>
ObjectPrototype   == <<"[object Object]">>

inheritedProperties ==
    [k \in {sConstructor, sProto} |->
        IF k = sConstructor THEN ObjectConstructor ELSE ObjectPrototype]

\* /^Array<(.+)>$/ : the captured group, or <<>> when there is no match.
ArrayMatch(type) ==
    IF /\ StartsWith(type, sArrayOpen)
       /\ EndsWith(type, <<">">>)
       /\ Len(type) >= Len(sArrayOpen) + 2
       /\ ~Includes(type, <<"\n">>)
    THEN SubSeq(type, Len(sArrayOpen) + 1, Len(type) - 1)
    ELSE <<>>

\* A plausible slip: the members of a union are joined back without being
\* normalized.
RECURSIVE normalizeTypesNoMemberRecursion(_)
normalizeTypesNoMemberRecursion(type) ==
    IF Includes(type, <<"|">>)
    THEN LET parts == Split(type, "|")
             unionTypes == [i \in 1..Len(parts) |-> Trim(parts[i])]
         IN IF 2 < Len(unionTypes) THEN sAny ELSE Join(unionTypes, <<"|">>)
    ELSE LET lowerType == ToLowerCase(type)
         IN IF lowerType \in {<<"*">>, sMixed} THEN sAny
            ELSE IF lowerType = sUndefined THEN sVoid
            ELSE IF lowerType = sArrayLc THEN sAny \o sBrackets
            ELSE IF lowerType \in DOMAIN commonTypes THEN commonTypes[lowerType]
            ELSE type

\* utils.mjs normalizeTypes
RECURSIVE normalizeTypes(_)
normalizeTypes(type) ==
    IF Includes(type, <<"|">>)
    THEN LET parts == Split(type, "|")
             unionTypes == [i \in 1..Len(parts) |-> Trim(parts[i])]
         IN IF 2 < Len(unionTypes) THEN sAny
            ELSE Join([i \in 1..Len(unionTypes) |-> normalizeTypes(unionTypes[i])],
                      <<"|">>)
    ELSE LET lowerType == ToLowerCase(type)
         IN IF lowerType \in {<<"*">>, sMixed} THEN sAny
            ELSE IF lowerType = sUndefined THEN sVoid
            ELSE IF lowerType = sArrayLc THEN sAny \o sBrackets
            ELSE IF Includes(type, sBrackets)
                 THEN normalizeTypes(Trim(ReplaceFirst(type, sBrackets, <<>>))) \o sBrackets
            ELSE IF ArrayMatch(type) # <<>>
                 THEN normalizeTypes(Trim(ArrayMatch(type))) \o sBrackets
            ELSE IF lowerType \in DOMAIN commonTypes THEN commonTypes[lowerType]
            ELSE IF lowerType \in DOMAIN inheritedProperties
                 THEN inheritedProperties[lowerType]
            ELSE type

(***************************************************************************)
(* The tag grammar: what parse() of comment-parser returns for the text    *)
(* `/*${docblock.value}*/` (utils.mjs:216).  A block is a list of source   *)
(* lines; a line whose text after the `*` delimiter starts with `@` opens  *)
(* a tag, and the tokens of a tag are read from its first line:            *)
(* `@tag {type} name description`.                                         *)
(***************************************************************************)
sOpen  == <<"/", "*">>
sClose == <<"*", "/">>

\* The part of s before its first white space, and from it on.
RECURSIVE WordLen(_)
WordLen(s) == IF s = <<>> \/ IsSpace(Head(s)) THEN 0 ELSE 1 + WordLen(Tail(s))

Drop(s, n) == SubSeq(s, n + 1, Len(s))

Take(s, n) == SubSeq(s, 1, n)

\* What follows the line's delimiter (`/**` or `*`) and the space after it.
AfterDelimiter(rest) ==
    IF StartsWith(rest, <<"/", "*", "*">>) THEN TrimStart(Drop(rest, 3))
    ELSE IF StartsWith(rest, <<"*">>) /\ ~StartsWith(rest, sClose) THEN TrimStart(Drop(rest, 1))
    ELSE rest

\* The closing `*/` cut off a line that ends with it.
BeforeClose(rest) ==
    IF EndsWith(TrimEnd(rest), sClose) THEN Take(TrimEnd(rest), Len(TrimEnd(rest)) - 2)
    ELSE rest

\* One source line of the comment: the text after the indentation, the
\* delimiter and the space that follows it, up to the closing `*/`.
LineDescription(line) == BeforeClose(AfterDelimiter(TrimStart(line)))

\* /^@\S/ on the text: it opens a tag.
StartsTag(description) ==
    Len(description) >= 2 /\ description[1] = "@" /\ ~IsSpace(description[2])

IsTagLine(line) == StartsTag(LineDescription(line))

\* The end of the `{...}` group at s[i..], braces counted; 0 when it never
\* closes.
RECURSIVE CloseBrace(_, _, _)
CloseBrace(s, i, depth) ==
    IF i > Len(s) THEN 0
    ELSE IF s[i] = "}" /\ depth = 1 THEN i
    ELSE CloseBrace(s, i + 1,
                    depth + (IF s[i] = "{" THEN 1 ELSE IF s[i] = "}" THEN -1 ELSE 0))

\* Where the type token `{...}` that opens s ends; 0 when s opens with none.
TypeEnd(s) == IF StartsWith(s, <<"{">>) THEN CloseBrace(s, 1, 0) ELSE 0

TypeToken(s) == IF TypeEnd(s) = 0 THEN <<>> ELSE SubSeq(s, 2, TypeEnd(s) - 1)

\* The name token: up to the first white space outside square brackets.
RECURSIVE NameLen(_, _)
NameLen(s, brackets) ==
    IF s = <<>> \/ (brackets = 0 /\ IsSpace(Head(s))) THEN 0
    ELSE 1 + NameLen(Tail(s),
                     brackets + (IF Head(s) = "[" THEN 1 ELSE IF Head(s) = "]" THEN -1 ELSE 0))

\* `[name]` and `[name=default]` document an optional parameter.
IsOptionalName(token) ==
    Len(token) >= 2 /\ token[1] = "[" /\ token[Len(token)] = "]"

NameOf(token) ==
    IF ~IsOptionalName(token) THEN token
    ELSE Trim(Split(SubSeq(token, 2, Len(token) - 1), "=")[1])

DefaultOf(token) ==
    IF IsOptionalName(token) /\ Includes(token, <<"=">>)
    THEN Trim(SubSeq(token, IndexOf(token, <<"=">>) + 1, Len(token) - 1))
    ELSE <<>>

\* descriptions joined the way comment-parser's default (compact) spacing
\* does: each line trimmed, empty ones dropped, one space between.
RECURSIVE CompactJoin(_)
CompactJoin(descs) ==
    IF descs = <<>> THEN <<>>
    ELSE IF Trim(Head(descs)) = <<>> THEN CompactJoin(Tail(descs))
    ELSE IF CompactJoin(Tail(descs)) = <<>> THEN Trim(Head(descs))
    ELSE Trim(Head(descs)) \o <<" ">> \o CompactJoin(Tail(descs))

Descriptions(lines) == [i \in 1..Len(lines) |-> LineDescription(lines[i])]

\* One tag, token by token: `@tag`, `{type}`, name, description; source is
\* the text of the first line, as the rules read it from `source: [source]`.
TagAfterName(lines, tag, type, nameToken, afterName) ==
    [tag         |-> tag,
     type        |-> type,
     name        |-> NameOf(nameToken),
     optional    |-> IsOptionalName(nameToken),
     default     |-> DefaultOf(nameToken),
     description |-> CompactJoin(<<afterName>> \o Descriptions(Tail(lines))),
     source      |-> lines[1]]

TagAfterType(lines, tag, type, afterType) ==
    TagAfterName(lines, tag, type,
                 Take(afterType, NameLen(afterType, 0)),
                 Drop(afterType, NameLen(afterType, 0)))

TagAfterTag(lines, tag, afterTag) ==
    TagAfterType(lines, tag, TypeToken(afterTag), TrimStart(Drop(afterTag, TypeEnd(afterTag))))

TagOfDescription(lines, d) ==
    TagAfterTag(lines, SubSeq(d, 2, WordLen(d)), TrimStart(Drop(d, WordLen(d))))

ParseTag(lines) == TagOfDescription(lines, LineDescription(lines[1]))

\* The lines of a block cut into sections: the description lines first,
\* then one section per tag line.
RECURSIVE Sections(_, _)
Sections(lines, acc) ==
    IF lines = <<>> THEN acc
    ELSE IF IsTagLine(Head(lines)) \/ acc = <<>>
         THEN Sections(Tail(lines), Append(acc, <<Head(lines)>>))
         ELSE Sections(Tail(lines),
                       [acc EXCEPT ![Len(acc)] = Append(acc[Len(acc)], Head(lines))])

\* The block of the sections: the description is the first section unless
\* the first line is itself a tag.
BlockOf(secs) ==
    IF IsTagLine(secs[1][1])
    THEN [description |-> <<>>, tags |-> [i \in 1..Len(secs) |-> ParseTag(secs[i])]]
    ELSE [description |-> CompactJoin(Descriptions(secs[1])),
          tags |-> [i \in 1..(Len(secs) - 1) |-> ParseTag(secs[i + 1])]]

\* parse(`/*${value}*/`): a list of blocks, one for a comment that opens
\* with `/**`, none otherwise.
parse(value) ==
    IF ~StartsWith(TrimStart(sOpen \o value), <<"/", "*", "*">>) THEN <<>>
    ELSE <<BlockOf(Sections(Split(sOpen \o value \o sClose, "\n"), <<>>))>>

\* `data[0]?.tags ?? []`: the tags of the first block.
FirstBlockTags(data) == IF data = <<>> THEN <<>> ELSE data[1].tags

\* `data.tags ?? []`, data being the array parse() returned: an array has
\* no property `tags`, so this is always the empty list.
ArrayTagsProperty(data) == <<>>

(***************************************************************************)
(* The syntax tree and the comments of the file being linted.              *)
(*                                                                         *)
(* A file holds one declaration.  nodes[i] is a node of its tree: its      *)
(* ESTree type, its parent (0: the Program), the index of the token it     *)
(* starts at, and the node it wraps (declaration, declarations[0], init,   *)
(* right, value, body; 0: none).  A function node also carries its params  *)
(* and its body, a class node the text of its superClass.  comments[i] is  *)
(* a comment: its type, its value (the text between the delimiters), the   *)
(* token it stands before, and its range.                                  *)
(***************************************************************************)
\* The `value` property of a node: a string, a value of another type (a
\* number, a boolean, a regular expression), or nothing (no such node, a
\* node without the property, or the literal null).
StringValue(text) == [of |-> "string", text |-> text]

OtherValue == [of |-> "other", text |-> <<>>]

NoValue == [of |-> "none", text |-> <<>>]

\* The argument of a throw statement: the type of the expression, the name
\* of its callee, and the value of its first argument.
NoArgument == [type |-> "none", callee |-> "none", value |-> NoValue]

NoStatement ==
    [type |-> "none", block |-> <<>>, alt |-> <<>>, fin |-> <<>>, argument |-> NoArgument]

\* A statement: block holds the statements of its first arm (consequent,
\* body, block.body, a case's consequent), alt those of its second
\* (alternate, handler.body.body), fin those of its finalizer.body.  argument
\* is the expression a throw statement throws.
Stmt(type, block, alt, fin) ==
    [type |-> type, block |-> block, alt |-> alt, fin |-> fin, argument |-> NoArgument]

\* `throw new callee(value)`
ThrowNew(callee, value) ==
    [Stmt("ThrowStatement", <<>>, <<>>, <<>>) EXCEPT
        !.argument = [type |-> "NewExpression", callee |-> callee, value |-> value]]

Leaf(type) == Stmt(type, <<>>, <<>>, <<>>)

Node(type, parent, start, child) ==
    [type |-> type, parent |-> parent, start |-> start, child |-> child,
     params |-> <<>>, body |-> NoStatement, superClass |-> <<>>, abstract |-> FALSE]

FunctionTypes == {"FunctionExpression", "ArrowFunctionExpression"}

\* The declaration shapes: how the function (or class) is wrapped.
ShapeNodes(shape, fnType) ==
    CASE shape = "var" ->            \* const f = function () {}
           <<Node("VariableDeclaration", 0, 1, 2),
             Node("VariableDeclarator", 1, 2, 3),
             Node(fnType, 2, 4, 0)>>
      [] shape = "exportVar" ->      \* export const f = () => {}
           <<Node("ExportNamedDeclaration", 0, 1, 2),
             Node("VariableDeclaration", 1, 2, 3),
             Node("VariableDeclarator", 2, 3, 4),
             Node(fnType, 3, 5, 0)>>
      [] shape = "exportDefault" ->  \* export default () => {}
           <<Node("ExportDefaultDeclaration", 0, 1, 2),
             Node(fnType, 1, 3, 0)>>
      [] shape = "assign" ->         \* a.b = function () {}
           <<Node("ExpressionStatement", 0, 1, 2),
             Node("AssignmentExpression", 1, 1, 3),
             Node(fnType, 2, 5, 0)>>
      [] shape = "method" ->         \* class A { m() {} }
           <<Node("ClassDeclaration", 0, 1, 2),
             Node("ClassBody", 1, 3, 3),
             Node("MethodDefinition", 2, 4, 4),
             Node("FunctionExpression", 3, 5, 0)>>
      [] shape = "exportClass" ->    \* export class A { m() {} }
           <<Node("ExportNamedDeclaration", 0, 1, 2),
             Node("ClassDeclaration", 1, 2, 3),
             Node("ClassBody", 2, 4, 4),
             Node("MethodDefinition", 3, 5, 5),
             Node("FunctionExpression", 4, 6, 0)>>
      [] shape = "property" ->       \* const o = { m: function () {} }
           <<Node("VariableDeclaration", 0, 1, 2),
             Node("VariableDeclarator", 1, 2, 3),
             Node("ObjectExpression", 2, 4, 4),
             Node("Property", 3, 5, 5),
             Node(fnType, 4, 7, 0)>>
      [] shape = "assignObject" ->   \* a.b = { m: function () {} }
           <<Node("ExpressionStatement", 0, 1, 2),
             Node("AssignmentExpression", 1, 1, 3),
             Node("ObjectExpression", 2, 5, 4),
             Node("Property", 3, 6, 5),
             Node(fnType, 4, 8, 0)>>
      [] shape = "exportProperty" -> \* export const o = { m: function () {} }
           <<Node("ExportNamedDeclaration", 0, 1, 2),
             Node("VariableDeclaration", 1, 2, 3),
             Node("VariableDeclarator", 2, 3, 4),
             Node("ObjectExpression", 3, 5, 5),
             Node("Property", 4, 6, 6),
             Node(fnType, 5, 8, 0)>>
      [] shape = "classExpression" -> \* const A = class {}
           <<Node("VariableDeclaration", 0, 1, 2),
             Node("VariableDeclarator", 1, 2, 3),
             Node("ClassExpression", 2, 4, 0)>>
      [] shape = "exportDefaultClass" -> \* export default class A {}
           <<Node("ExportDefaultDeclaration", 0, 1, 2),
             Node("ClassDeclaration", 1, 3, 0)>>
      [] shape = "exportFunction" -> \* export function f() {}
           <<Node("ExportNamedDeclaration", 0, 1, 2),
             Node("FunctionDeclaration", 1, 2, 0)>>
      [] shape = "exportDefaultFunction" -> \* export default function () {}
           <<Node("ExportDefaultDeclaration", 0, 1, 2),
             Node("FunctionDeclaration", 1, 3, 0)>>
      [] shape = "exportValue" ->    \* export const x = 5
           <<Node("ExportNamedDeclaration", 0, 1, 2),
             Node("VariableDeclaration", 1, 2, 3),
             Node("VariableDeclarator", 2, 3, 4),
             Node("Literal", 3, 5, 0)>>
      [] shape = "assignValue" ->    \* a.b = 5
           <<Node("ExpressionStatement", 0, 1, 2),
             Node("AssignmentExpression", 1, 1, 3),
             Node("Literal", 2, 5, 0)>>

Shapes ==
    {"var", "exportVar", "exportDefault", "assign", "method", "exportClass",
     "property", "assignObject"}

\* The shapes whose last node is a function expression of either type.
FunctionShapesOf(shapes) ==
    shapes \ {"method", "exportClass", "classExpression", "exportDefaultClass",
              "exportFunction", "exportDefaultFunction", "exportValue", "assignValue"}

\* Those, and the shapes that wrap a class expression, a function
\* declaration or a plain value.
AllShapes ==
    Shapes \cup {"exportProperty", "classExpression", "exportDefaultClass",
                 "exportFunction", "exportDefaultFunction", "exportValue", "assignValue"}

\* The shape's tree with its function given params and body.
Tree(shape, fnType, params, body) ==
    LET ns == ShapeNodes(shape, fnType)
    IN [i \in 1..Len(ns) |->
          IF i = Len(ns) THEN [ns[i] EXCEPT !.params = params, !.body = body] ELSE ns[i]]

\* The token a docblock is conventionally written before: the statement, or
\* the method or property key.
DocToken(shape) ==
    CASE shape \in {"method"} -> 4
      [] shape \in {"exportClass", "property"} -> 5
      [] shape = "assignObject" -> 6
      [] OTHER -> 1

Comment(type, value, before) ==
    [type |-> type, value |-> value, before |-> before, range |-> <<0, 0>>]

\* The comments laid out in the file: a token is one character wide, a
\* block comment is its value between `/*` and `*/`.
RECURSIVE CommentsWidth(_, _)
CommentsWidth(cs, n) ==
    IF n = 0 THEN 0 ELSE CommentsWidth(cs, n - 1) + Len(cs[n].value) + 4

Layout(cs) ==
    [i \in 1..Len(cs) |->
        LET start == (cs[i].before - 1) + CommentsWidth(cs, i - 1)
        IN [cs[i] EXCEPT !.range = <<start, start + Len(cs[i].value) + 4>>]]

File(nodes, comments) == [nodes |-> nodes, comments |-> Layout(comments)]

NoFile == [nodes |-> <<>>, comments |-> <<>>]

TypeOf(f, n) == IF n = 0 THEN "Program" ELSE f.nodes[n].type

ParentOf(f, n) == IF n = 0 THEN 0 ELSE f.nodes[n].parent

(***************************************************************************)
(* utils.mjs: the discovery layer                                          *)
(***************************************************************************)

\* sourceCode.getCommentsBefore(target): the comments directly before the
\* token the node starts at.
getCommentsBefore(f, target) ==
    {i \in 1..Len(f.comments) : target # 0 /\ f.comments[i].before = f.nodes[target].start}

\* getDocblock's findDocblock: the last block comment before target whose
\* trimmed value starts with `*`; 0 when there is none.
findDocblock(f, target) ==
    LET docs == {i \in getCommentsBefore(f, target) :
                    /\ f.comments[i].type = "Block"
                    /\ StartsWith(Trim(f.comments[i].value), <<"*">>)}
    IN IF docs = {} THEN 0 ELSE CHOOSE i \in docs : \A j \in docs : j <= i

\* utils.mjs getDocblock: the index of the docblock comment, 0 for null.
getDocblock(f, node) ==
    LET direct == findDocblock(f, node)
        parent == ParentOf(f, node)
        \* functions inside a VariableDeclarator
        decl == ParentOf(f, parent)
        viaDeclarator ==
            IF TypeOf(f, parent) # "VariableDeclarator" \/ parent = 0 THEN 0
            ELSE IF findDocblock(f, decl) # 0 THEN findDocblock(f, decl)
            ELSE IF TypeOf(f, ParentOf(f, decl)) = "ExportNamedDeclaration"
                 THEN findDocblock(f, ParentOf(f, decl))
            ELSE 0
        \* functions inside a Property
        object == ParentOf(f, parent)
        objDecl == ParentOf(f, ParentOf(f, object))
        viaObjectDeclarator ==
            IF TypeOf(f, ParentOf(f, object)) # "VariableDeclarator" \/ object = 0 THEN 0
            ELSE IF findDocblock(f, objDecl) # 0 THEN findDocblock(f, objDecl)
            ELSE IF TypeOf(f, ParentOf(f, objDecl)) = "ExportNamedDeclaration"
                 THEN findDocblock(f, ParentOf(f, objDecl))
            ELSE 0
        viaObjectAssignment ==
            IF TypeOf(f, ParentOf(f, object)) = "AssignmentExpression" /\ object # 0
            THEN findDocblock(f, ParentOf(f, object))
            ELSE 0
        viaProperty ==
            IF TypeOf(f, parent) # "Property" \/ parent = 0 THEN 0
            ELSE IF findDocblock(f, parent) # 0 THEN findDocblock(f, parent)
            ELSE IF viaObjectDeclarator # 0 THEN viaObjectDeclarator
            ELSE viaObjectAssignment
    IN IF direct # 0 THEN direct
       ELSE IF TypeOf(f, node) \in {"ExportNamedDeclaration", "ExportDefaultDeclaration"} THEN 0
       ELSE IF TypeOf(f, node) = "AssignmentExpression" THEN 0
       ELSE IF viaDeclarator # 0 THEN viaDeclarator
       ELSE viaProperty

DeclarationTypes == {"ClassDeclaration", "FunctionExpression", "ArrowFunctionExpression"}

\* utils.mjs normalizeNode: the real declaration, 0 for null.
normalizeNode(f, node) ==
    LET n == f.nodes[node]
        declaration == n.child
        declarator == IF declaration = 0 THEN 0 ELSE f.nodes[declaration].child
        init == IF declarator = 0 THEN 0 ELSE f.nodes[declarator].child
    IN IF n.type = "ExportNamedDeclaration"
       THEN IF declaration # 0 /\ TypeOf(f, declaration) \in DeclarationTypes
            THEN declaration
            ELSE IF declaration # 0 /\ TypeOf(f, declaration) = "VariableDeclaration"
                    /\ declarator # 0 /\ init # 0 /\ TypeOf(f, init) \in FunctionTypes
                 THEN init
            ELSE 0
       ELSE IF n.type = "ExportDefaultDeclaration"
       THEN IF declaration # 0 /\ TypeOf(f, declaration) \in DeclarationTypes
            THEN declaration ELSE 0
       ELSE IF n.type = "AssignmentExpression"
       THEN IF n.child # 0 /\ TypeOf(f, n.child) \in FunctionTypes THEN n.child ELSE 0
       ELSE node

\* utils.mjs getNodeKind
getNodeKind(f, node) ==
    IF TypeOf(f, node) = "ClassDeclaration" THEN "class"
    ELSE IF TypeOf(f, node) = "MethodDefinition" THEN "method"
    ELSE IF TypeOf(f, node) \in FunctionTypes THEN "function"
    ELSE "unknown"

\* n in decimal digits, as a template literal writes it.
RECURSIVE Decimal(_)
Decimal(n) ==
    LET digit == <<"0", "1", "2", "3", "4", "5", "6", "7", "8", "9">>[(n % 10) + 1]
    IN IF n < 10 THEN <<digit>> ELSE Append(Decimal(n \div 10), digit)

\* `${docblock.range[0]}-${docblock.range[1]}`
docblockKey(docblock) == Decimal(docblock.range[1]) \o <<"-">> \o Decimal(docblock.range[2])

NoDocData == [found |-> FALSE, docblock |-> 0, realNode |-> 0, kind |-> "none", data |-> <<>>]

\* utils.mjs getDocblockData, `cache.add(docblockKey)`: the cache once the
\* docblock d (0: none) was located.
cacheWith(f, cache, d) ==
    IF d = 0 THEN cache ELSE cache \cup {docblockKey(f.comments[d])}

\* A plausible slip: the key of the docblock is never recorded.
cacheAfterLookupNotRecorded(f, cache, node) == cache

\* utils.mjs getDocblockData, the cache part: the context's cache after the
\* call (the key is added as soon as a docblock is located and not cached).
cacheAfterLookup(f, cache, node) == cacheWith(f, cache, getDocblock(f, node))

\* utils.mjs getDocblockData, the result: null (found = FALSE) when no
\* docblock is located, when its key is in the context's cache, or when the
\* node wraps no declaration.
docDataOf(f, cache, d, realNode) ==
    IF d = 0 THEN NoDocData
    ELSE IF docblockKey(f.comments[d]) \in cache THEN NoDocData
    ELSE IF realNode = 0 THEN NoDocData
    ELSE [found    |-> TRUE,
          docblock |-> d,
          realNode |-> realNode,
          kind     |-> getNodeKind(f, realNode),
          data     |-> parse(f.comments[d].value)]

getDocblockData(f, cache, node) ==
    docDataOf(f, cache, getDocblock(f, node), normalizeNode(f, node))

\* utils.mjs getTagRange: the range of the tag's source line in the file, or
\* the whole docblock when the line is not found in docblock.value.
getTagRange(docblock, source) ==
    LET startIndex == IndexOf(docblock.value, source)
        start == docblock.range[1] + 2 + (startIndex - 1)
    IN IF startIndex = 0 THEN docblock.range ELSE <<start, start + Len(source)>>

(***************************************************************************)
(* Diagnostics.  A report is what a rule hands to context.report: the      *)
(* rule, the message (its fixed text), and the fix, which replaces the     *)
(* file's text in range [from, to) by text.                                *)
(***************************************************************************)
NoFix == [offered |-> FALSE, range |-> <<0, 0>>, text |-> <<>>]

\* fixer.replaceTextRange(range, text)
replaceTextRange(range, text) == [offered |-> TRUE, range |-> range, text |-> text]

\* fixer.replaceText(docblock, text)
replaceText(docblock, text) == replaceTextRange(docblock.range, text)

Report(rule, message, fix) == [rule |-> rule, message |-> message, fix |-> fix]

\* tags.some(callback), the callback reporting and returning true at the
\* first violation of a tag: of the reports the tags would get, in order,
\* the first one.
FirstReport(tagReports) ==
    LET failing == {i \in 1..Len(tagReports) : tagReports[i] # <<>>}
        first == CHOOSE i \in failing : \A j \in failing : i <= j
    IN IF failing = {} THEN <<>> ELSE tagReports[first]

(***************************************************************************)
(* The throws rule (rules/node-prefix-imports.mjs:134-422)                 *)
(***************************************************************************)
sThrow   == <<"t", "h", "r", "o", "w">>
sThrows  == sThrow \o <<"s">>
sAtThrow == <<"@">> \o sThrow

MaxThrowsDescription == 80

LoopTypes ==
    {"WhileStatement", "DoWhileStatement", "ForStatement", "ForInStatement", "ForOfStatement"}

\* traverseTryCatch: some statement is a try, or holds one in the arms the
\* loop descends into.
RECURSIVE traverseTryCatch(_)
traverseTryCatch(statements) ==
    \E i \in 1..Len(statements) :
        LET stmt == statements[i]
        IN \/ stmt.type = "TryStatement"
           \/ /\ stmt.type = "IfStatement"
              /\ (traverseTryCatch(stmt.block) \/ traverseTryCatch(stmt.alt))
           \/ /\ stmt.type \in {"BlockStatement", "SwitchStatement"} \cup LoopTypes
              /\ traverseTryCatch(stmt.block)

\* traverseThrows: some statement is a throw, or holds one in the arms the
\* loop descends into.
RECURSIVE traverseThrows(_)
traverseThrows(statements) ==
    \E i \in 1..Len(statements) :
        LET stmt == statements[i]
        IN \/ stmt.type = "ThrowStatement"
           \/ /\ stmt.type = "IfStatement"
              /\ (traverseThrows(stmt.block) \/ traverseThrows(stmt.alt))
           \/ /\ stmt.type \in {"BlockStatement", "SwitchStatement"} \cup LoopTypes
              /\ traverseThrows(stmt.block)
           \/ /\ stmt.type = "TryStatement"
              /\ \/ traverseThrows(stmt.block)
                 \/ traverseThrows(stmt.alt)
                 \/ traverseThrows(stmt.fin)

\* hasTryCatch(node): node.body is read off the node itself; a
\* MethodDefinition has no body (its function is node.value).
hasTryCatch(node) ==
    IF node.body.type = "none" THEN FALSE
    ELSE IF node.body.type = "BlockStatement" THEN traverseTryCatch(node.body.block)
    ELSE FALSE

\* hasThrow(node)
hasThrow(node) ==
    IF node.body.type = "none" THEN FALSE
    ELSE IF node.body.type = "BlockStatement" THEN traverseThrows(node.body.block)
    ELSE FALSE

\* getThrowsSignature
getThrowsSignature(tag) ==
    (IF tag.type = <<>> THEN sUndefined ELSE tag.type) \o <<"-">> \o tag.name
        \o <<"-">> \o tag.description

IsThrowsTag(tag) == tag.tag \in {sThrow, sThrows}

\* The callback of throwsTags.some(...): the report for one @throws tag,
\* <<>> when the tag passes.
ThrowsTagReport(docblock, tag) ==
    LET expectedType == normalizeTypes(tag.type)
        fullDescription ==
            tag.name \o (IF tag.description = <<>> THEN <<>>
                         ELSE (IF tag.name = <<>> THEN <<>> ELSE <<" ">>) \o tag.description)
        range == getTagRange(docblock, tag.source)
    IN IF tag.tag = sThrow
       THEN <<Report("throws", "Use \"@throws\" instead of \"@throw\".",
                replaceTextRange(range, ReplaceFirst(tag.source, sAtThrow, sAtThrow \o <<"s">>)))>>
       ELSE IF tag.type = <<>>
       THEN <<Report("throws", "@throws must include a type.", NoFix)>>
       ELSE IF expectedType # tag.type
       THEN <<Report("throws", "@throws type is ... but should be ...",
                replaceTextRange(range,
                    ReplaceFirst(tag.source, <<"{">> \o tag.type \o <<"}">>,
                                 <<"{">> \o expectedType \o <<"}">>)))>>
       ELSE IF fullDescription = <<>>
       THEN <<Report("throws", "@throws must include a description.", NoFix)>>
       ELSE IF ~EndsWith(fullDescription, <<".">>)
       THEN <<Report("throws", "@throws description must end with a period.",
                replaceTextRange(range,
                    ReplaceFirst(tag.source, tag.description, tag.description \o <<".">>)))>>
       ELSE IF MaxThrowsDescription < Len(fullDescription)
       THEN <<Report("throws", "@throws description must not exceed 80 characters.", NoFix)>>
       ELSE <<>>

\* validate: `hasTryCatch(realNode) || hasThrow(realNode)`
canThrowErrors(node) == hasTryCatch(node) \/ hasThrow(node)

\* The throws rule's validate, after getDocblockData: the reports (at most
\* one) for the docblock data dd of file f.
validateThrows(f, dd) ==
    LET docblock == f.comments[dd.docblock]
        tags == FirstBlockTags(dd.data)
        throwsTags == SelectSeq(tags, IsThrowsTag)
        canThrow == canThrowErrors(f.nodes[dd.realNode])
        signatures == [i \in 1..Len(throwsTags) |-> getThrowsSignature(throwsTags[i])]
        duplicates == \E i, j \in 1..Len(throwsTags) : i < j /\ signatures[i] = signatures[j]
        tagReports == [i \in 1..Len(throwsTags) |-> ThrowsTagReport(docblock, throwsTags[i])]
    IN IF ~dd.found \/ dd.kind = "class" THEN <<>>
       ELSE IF canThrow /\ throwsTags = <<>>
       THEN <<Report("throws",
                "Declaration can throw exceptions but no @throws documentation found.", NoFix)>>
       ELSE IF ~canThrow /\ throwsTags # <<>>
       THEN <<Report("throws",
                "Declaration has @throws documentation but no try-catch blocks or throw statements found.",
                NoFix)>>
       ELSE IF throwsTags = <<>> THEN <<>>
       ELSE IF duplicates
       THEN <<Report("throws",
                "Duplicate @throws tags found. Each exception type should be documented only once.",
                NoFix)>>
       ELSE FirstReport(tagReports)

\* The node types the throws rule listens to.
ThrowsListens ==
    {"MethodDefinition", "FunctionExpression", "ArrowFunctionExpression",
     "ExportNamedDeclaration", "ExportDefaultDeclaration", "AssignmentExpression"}

(***************************************************************************)
(* The params rule (rules/docblock-validate-params-js.mjs)                 *)
(*                                                                         *)
(* A node of a parameter pattern or of a default value is a record: its    *)
(* ESTree type; kind, the typeof a Literal's value (null for null) or the  *)
(* type of a Property's key; text, the name of an Identifier, the key of a *)
(* Property, String(value) of a Literal, the operator of a                 *)
(* UnaryExpression; parts, its children (elements, properties, <<value>>,  *)
(* <<argument>>, <<left, right>>).                                         *)
(***************************************************************************)
sIdentifier == <<"I", "d", "e", "n", "t", "i", "f", "i", "e", "r">>
sAtParam    == <<"@", "p", "a", "r", "a", "m">>
sOptional   == <<"O", "p", "t", "i", "o", "n", "a", "l", ".">>
sDefault    == <<"D", "e", "f", "a", "u", "l", "t", ":">>

Syn(type, kind, text, parts) == [type |-> type, kind |-> kind, text |-> text, parts |-> parts]

NoSyn == Syn("none", <<>>, <<>>, <<>>)

Identifier(name) == Syn("Identifier", <<>>, name, <<>>)

Literal(kind, text) == Syn("Literal", kind, text, <<>>)

Property(key, value) == Syn("Property", sIdentifier, key, <<value>>)

ArrayExpression(elements) == Syn("ArrayExpression", <<>>, <<>>, elements)

ObjectExpression(properties) == Syn("ObjectExpression", <<>>, <<>>, properties)

ObjectPattern(properties) == Syn("ObjectPattern", <<>>, <<>>, properties)

AssignmentPattern(left, right) == Syn("AssignmentPattern", <<>>, <<>>, <<left, right>>)

UnaryExpression(operator, argument) == Syn("UnaryExpression", <<>>, operator, <<argument>>)

BinaryExpression(left, right) == Syn("BinaryExpression", <<>>, <<>>, <<left, right>>)

\* param.right / originalParam?.right: only an AssignmentPattern has one.
RightOf(param) == IF param.type = "AssignmentPattern" THEN param.parts[2] ELSE NoSyn

\* An entry of the expanded parameter list.
RealParam(name, type, hasDefault, originalParam, property, isParentObject) ==
    [name |-> name, type |-> type, hasDefault |-> hasDefault,
     originalParam |-> originalParam, property |-> property,
     isParentObject |-> isParentObject]

\* expandNodeParams, the loops over properties: one entry for each Property
\* with an Identifier key.
RECURSIVE PropertyParams(_, _, _, _, _)
PropertyParams(properties, prefix, type, allDefault, originalParam) ==
    IF properties = <<>> THEN <<>>
    ELSE (IF Head(properties).type = "Property" /\ Head(properties).kind = sIdentifier
          THEN <<RealParam(prefix \o Head(properties).text, type,
                           allDefault \/ Head(properties).parts[1].type = "AssignmentPattern",
                           originalParam, Head(properties), FALSE)>>
          ELSE <<>>)
         \o PropertyParams(Tail(properties), prefix, type, allDefault, originalParam)

\* expandNodeParams, case 3: an assignment with a default.
ExpandAssignment(param, leftSide, rightSide) ==
    IF leftSide.type = "Identifier" /\ rightSide.type = "ObjectExpression"
    THEN <<RealParam(leftSide.text, "AssignmentPattern", TRUE, param, NoSyn, TRUE)>>
         \o PropertyParams(rightSide.parts, leftSide.text \o <<".">>, "AssignmentPattern",
                           TRUE, param)
    ELSE IF leftSide.type = "ObjectPattern"
    THEN PropertyParams(leftSide.parts, <<>>, "ObjectPattern", TRUE, param)
    ELSE IF leftSide.type = "Identifier"
    THEN <<RealParam(leftSide.text, "AssignmentPattern", TRUE, param, NoSyn, FALSE)>>
    ELSE <<>>

\* expandNodeParams, one parameter.
ExpandParam(param) ==
    IF param.type = "Identifier"
    THEN <<RealParam(param.text, "Identifier", FALSE, param, NoSyn, FALSE)>>
    ELSE IF param.type = "ObjectPattern"
    THEN PropertyParams(param.parts, <<>>, "ObjectPattern", FALSE, param)
    ELSE IF param.type = "AssignmentPattern"
    THEN ExpandAssignment(param, param.parts[1], param.parts[2])
    ELSE <<>>

RECURSIVE expandNodeParams(_)
expandNodeParams(params) ==
    IF params = <<>> THEN <<>>
    ELSE ExpandParam(Head(params)) \o expandNodeParams(Tail(params))

\* getNodeParams
RECURSIVE getNodeParams(_, _)
getNodeParams(f, node) ==
    IF node = 0 THEN <<>>
    ELSE IF TypeOf(f, node) \in {"FunctionDeclaration"} \cup FunctionTypes
    THEN expandNodeParams(f.nodes[node].params)
    ELSE IF TypeOf(f, node) = "MethodDefinition"
    THEN expandNodeParams(IF f.nodes[node].child = 0 THEN <<>>
                          ELSE f.nodes[f.nodes[node].child].params)
    ELSE IF TypeOf(f, node) = "VariableDeclarator" /\ f.nodes[node].child # 0
    THEN getNodeParams(f, f.nodes[node].child)
    ELSE IF /\ TypeOf(f, node) \in {"ExportNamedDeclaration", "ExportDefaultDeclaration"}
            /\ f.nodes[node].child # 0
    THEN getNodeParams(f, f.nodes[node].child)
    ELSE IF /\ TypeOf(f, node) = "VariableDeclaration"
            /\ getNodeParams(f, f.nodes[node].child) # <<>>
    THEN getNodeParams(f, f.nodes[node].child)
    ELSE expandNodeParams(f.nodes[node].params)

\* analyzeArrayElements, the type of one element.
ElementType(element) ==
    IF element.type = "Literal" THEN element.kind
    ELSE IF element.type = "ArrayExpression" THEN sArray
    ELSE IF element.type = "ObjectExpression" THEN sObject
    ELSE IF element.type = "Identifier" THEN element.text
    ELSE IF element.type \in FunctionTypes THEN sFunction
    ELSE sAny

\* analyzeArrayElements
analyzeArrayElements(elements) ==
    IF elements = <<>> THEN sAny \o sBrackets
    ELSE IF \A i \in 1..Len(elements) : ElementType(elements[i]) = ElementType(elements[1])
    THEN ElementType(elements[1]) \o sBrackets
    ELSE sAny \o sBrackets

\* getFormattedDefaultValue
RECURSIVE getFormattedDefaultValue(_)
getFormattedDefaultValue(node) ==
    IF node.type = "none" THEN sUndefined
    ELSE IF node.type = "Literal"
    THEN IF node.kind = sString THEN <<"'">> \o node.text \o <<"'">>
         ELSE IF node.kind = sNull THEN sNull
         ELSE node.text
    ELSE IF node.type = "Identifier" THEN node.text
    ELSE IF node.type = "ArrayExpression"
    THEN IF node.parts = <<>> THEN sBrackets ELSE <<"[", ".", ".", ".", "]">>
    ELSE IF node.type = "ObjectExpression"
    THEN IF node.parts = <<>> THEN <<"{", "}">> ELSE <<"{", ".", ".", ".", "}">>
    ELSE IF node.type = "UnaryExpression" /\ node.text = <<"-">>
    THEN <<"-">> \o getFormattedDefaultValue(node.parts[1])
    ELSE IF node.type \in FunctionTypes THEN sFunction
    ELSE sUndefined

\* getDefaultValueType
RECURSIVE getDefaultValueType(_)
getDefaultValueType(node) ==
    IF node.type = "none" THEN sUndefined
    ELSE IF node.type = "ArrayExpression" THEN analyzeArrayElements(node.parts)
    ELSE IF node.type = "ObjectExpression" THEN sObject
    ELSE IF node.type = "Literal" THEN node.kind
    ELSE IF node.type = "Identifier" THEN node.text
    ELSE IF node.type \in FunctionTypes THEN sFunction
    ELSE IF node.type = "UnaryExpression" THEN getDefaultValueType(node.parts[1])
    ELSE IF node.type = "BinaryExpression"
    THEN IF getDefaultValueType(node.parts[1]) = getDefaultValueType(node.parts[2])
         THEN getDefaultValueType(node.parts[1])
         ELSE sAny
    ELSE IF node.type = "CallExpression" THEN sFunctionCall
    ELSE sAny

\* getDefaultValue
getDefaultValue(realParam) ==
    IF realParam.type = "AssignmentPattern" /\ realParam.property # NoSyn
    THEN getFormattedDefaultValue(realParam.property.parts[1])
    ELSE IF RightOf(realParam.originalParam) # NoSyn
    THEN getFormattedDefaultValue(RightOf(realParam.originalParam))
    ELSE sUndefined

\* getExpectedType, the message for the array spellings.
TypeValidationMessage(type) ==
    IF ToLowerCase(type) = sArrayLc
    THEN "Use \"TYPE[]\" instead of \"array\". Consider \"any[]\" if the content type is unknown."
    ELSE IF /\ Includes(type, sArrayOpen)
            /\ ~Includes(type, <<"|">>)
            /\ IndexOfFrom(type, <<"<">>, IndexOf(type, <<"<">>) + 1) = 0
    THEN "Use \"TYPE[]\" instead of \"Array<TYPE>\" for simple types."
    ELSE ""

\* getExpectedType
getExpectedType(type, realParam, realIsOptional) ==
    IF realIsOptional
    THEN [expectedType |->
             IF realParam.type = "AssignmentPattern" /\ realParam.property # NoSyn
             THEN getDefaultValueType(realParam.property.parts[1])
             ELSE IF realParam.isParentObject THEN sObject
             ELSE IF RightOf(realParam.originalParam) # NoSyn
             THEN getDefaultValueType(RightOf(realParam.originalParam))
             ELSE sAny,
          validationMessage |-> ""]
    ELSE [expectedType |-> normalizeTypes(type),
          validationMessage |-> TypeValidationMessage(type)]

MaxParamDescription == 100

Braced(type) == <<"{">> \o type \o <<"}">>

\* getAlignedParams: `[name=default]` for a tag documented as optional.
FormattedName(tag) ==
    IF tag.optional
    THEN <<"[">> \o tag.name
         \o (IF tag.default # <<>> THEN <<"=">> \o tag.default ELSE <<>>) \o <<"]">>
    ELSE tag.name

\* getAlignedParams: description.trim().replace(/^-/, '').trim()
UndashedDescription(tag) ==
    IF StartsWith(Trim(tag.description), <<"-">>)
    THEN Trim(Tail(Trim(tag.description)))
    ELSE Trim(tag.description)

\* Math.max(...lengths)
MaxOf(lengths) ==
    IF lengths = {} THEN 0 ELSE CHOOSE m \in lengths : \A n \in lengths : n <= m

\* getAlignedParams, one line padded to the widest type and name.
AlignedLine(tag, maxType, maxName) ==
    sAtParam \o <<" ">> \o PadEnd(Braced(tag.type), maxType) \o <<" ">>
        \o PadEnd(FormattedName(tag), maxName) \o <<" ", "-", " ">> \o UndashedDescription(tag)

\* getAlignedParams
getAlignedParams(tags) ==
    [i \in 1..Len(tags) |->
        AlignedLine(tags[i],
                    MaxOf({Len(Braced(tags[j].type)) : j \in 1..Len(tags)}),
                    MaxOf({Len(FormattedName(tags[j])) : j \in 1..Len(tags)}))]

HasParam(line) == Includes(line, sAtParam)

\* line.trim().replace(/^\* ?/, '')
UnstarredLine(line) ==
    IF StartsWith(Trim(line), <<"*", " ">>) THEN Drop(Trim(line), 2)
    ELSE IF StartsWith(Trim(line), <<"*">>) THEN Drop(Trim(line), 1)
    ELSE Trim(line)

\* getUnalignedParams
getUnalignedParams(docblock) ==
    [i \in 1..Len(SelectSeq(Split(docblock.value, "\n"), HasParam)) |->
        UnstarredLine(SelectSeq(Split(docblock.value, "\n"), HasParam)[i])]

\* replaceParamLines: /^([ \t]*)\*/ on the first @param line.
RECURSIVE BlankLen(_)
BlankLen(s) == IF s # <<>> /\ Head(s) \in {" ", "\t"} THEN 1 + BlankLen(Tail(s)) ELSE 0

IndentOf(paramLines) ==
    IF paramLines = <<>> THEN <<>>
    ELSE IF StartsWith(Drop(paramLines[1], BlankLen(paramLines[1])), <<"*">>)
    THEN Take(paramLines[1], BlankLen(paramLines[1]))
    ELSE <<>>

\* replaceParamLines, the loop over the lines.
RECURSIVE ReplacedLines(_, _, _)
ReplacedLines(lines, newParamLines, inParams) ==
    IF lines = <<>> THEN <<>>
    ELSE IF HasParam(Head(lines))
    THEN (IF inParams THEN <<>> ELSE newParamLines)
         \o ReplacedLines(Tail(lines), newParamLines, TRUE)
    ELSE <<Head(lines)>>
         \o ReplacedLines(Tail(lines), newParamLines,
                          inParams /\ StartsWith(Trim(Head(lines)), <<"*", " ", "@">>))

IndentedParams(indent, alignedParams) ==
    [i \in 1..Len(alignedParams) |-> indent \o <<"*", " ">> \o alignedParams[i]]

\* replaceParamLines
replaceParamLines(docText, alignedParams) ==
    Join(ReplacedLines(Split(docText, "\n"),
                       IndentedParams(IndentOf(SelectSeq(Split(docText, "\n"), HasParam)),
                                      alignedParams),
                       FALSE),
         <<"\n">>)

\* /^- Optional\. .+\. Default: <defaultValue>\.$/ tested on the description.
OptionalPrefix == <<"-", " ">> \o sOptional \o <<" ">>

DefaultSuffix(defaultValue) == <<".", " ">> \o sDefault \o <<" ">> \o defaultValue \o <<".">>

MatchesOptionalPattern(description, defaultValue) ==
    /\ StartsWith(description, OptionalPrefix)
    /\ EndsWith(description, DefaultSuffix(defaultValue))
    /\ Len(description) >= Len(OptionalPrefix) + 1 + Len(DefaultSuffix(defaultValue))
    /\ ~Includes(description, <<"\n">>)

\* description.replace(/^[-\s]+/, '')
RECURSIVE StripDashSpace(_)
StripDashSpace(s) ==
    IF s # <<>> /\ (Head(s) = "-" \/ IsSpace(Head(s))) THEN StripDashSpace(Tail(s)) ELSE s

\* cleanDesc.replace(/^Optional\.\s*/, '')
StripOptional(s) == IF StartsWith(s, sOptional) THEN TrimStart(Drop(s, Len(sOptional))) ELSE s

RECURSIVE NonDotLen(_)
NonDotLen(s) == IF s # <<>> /\ Head(s) # "." THEN 1 + NonDotLen(Tail(s)) ELSE 0

\* The length of what /\.\s*Default:[^.]*\.?/ matches at the head of s, the
\* first k characters being `.`, the white space and `Default:`.
DefaultPartFrom(s, k) ==
    k + NonDotLen(Drop(s, k))
      + (IF StartsWith(Drop(s, k + NonDotLen(Drop(s, k))), <<".">>) THEN 1 ELSE 0)

DefaultPartLen(s) ==
    IF StartsWith(s, <<".">>) /\ StartsWith(TrimStart(Tail(s)), sDefault)
    THEN DefaultPartFrom(s, Len(s) - Len(TrimStart(Tail(s))) + Len(sDefault))
    ELSE 0

\* The length of what /(\.\s*Default:[^.]*\.?)+/ matches at the head of s.
RECURSIVE DefaultPartsLen(_)
DefaultPartsLen(s) ==
    IF DefaultPartLen(s) = 0 THEN 0
    ELSE DefaultPartLen(s) + DefaultPartsLen(Drop(s, DefaultPartLen(s)))

\* cleanDesc.replace(/(\.\s*Default:[^.]*\.?)+/g, '')
RECURSIVE RemoveDefaults(_)
RemoveDefaults(s) ==
    IF s = <<>> THEN <<>>
    ELSE IF DefaultPartsLen(s) > 0 THEN RemoveDefaults(Drop(s, DefaultPartsLen(s)))
    ELSE <<Head(s)>> \o RemoveDefaults(Tail(s))

\* cleanDesc.replace(/\.+$/, '')
RECURSIVE StripTrailingDots(_)
StripTrailingDots(s) ==
    IF s # <<>> /\ s[Len(s)] = "." THEN StripTrailingDots(Take(s, Len(s) - 1)) ELSE s

\* The fix of the optional format: the description without its dash, its
\* `Optional.`, its `Default:` parts and its trailing dots.
CleanDesc(description) ==
    Trim(StripTrailingDots(RemoveDefaults(StripOptional(StripDashSpace(description)))))

OptionalDescription(description, defaultValue) ==
    OptionalPrefix \o CleanDesc(description) \o DefaultSuffix(defaultValue)

\* fixer.replaceTextRange(getTagRange(docblock, source), source.source.replace(from, to))
TagLineFix(docblock, tag, from, to) ==
    replaceTextRange(getTagRange(docblock, tag.source), ReplaceFirst(tag.source, from, to))

\* The callback of paramTags.some(...), from the description checks on.
ParamDescriptionReport(docblock, tag, realParam) ==
    IF tag.description = <<>>
    THEN <<Report("params", "@param must include a description.", NoFix)>>
    ELSE IF ~StartsWith(tag.description, <<"-">>)
    THEN <<Report("params", "@param description must start with a dash.",
             TagLineFix(docblock, tag, tag.description, <<"-", " ">> \o tag.description))>>
    ELSE IF /\ realParam.hasDefault
            /\ ~MatchesOptionalPattern(tag.description, getDefaultValue(realParam))
    THEN <<Report("params",
             "@param description must follow format: \"- Optional. [description]. Default: ...\"",
             TagLineFix(docblock, tag, tag.description,
                        OptionalDescription(tag.description, getDefaultValue(realParam))))>>
    ELSE IF ~EndsWith(tag.description, <<".">>)
    THEN <<Report("params", "@param description must end with a period.",
             TagLineFix(docblock, tag, tag.description, tag.description \o <<".">>))>>
    ELSE IF MaxParamDescription < Len(tag.description)
    THEN <<Report("params", "@param description must not exceed 100 characters.", NoFix)>>
    ELSE <<>>

\* The callback of paramTags.some(...), from the type check on.
ParamTypeReport(docblock, tag, realParam, expected) ==
    IF expected.expectedType # tag.type
    THEN <<Report("params",
             IF expected.validationMessage # "" THEN expected.validationMessage
             ELSE "@param type is ... but should be ...",
             TagLineFix(docblock, tag, Braced(tag.type), Braced(expected.expectedType)))>>
    ELSE IF tag.optional
    THEN <<Report("params",
             "@param should not be documented as optional with a default value.", NoFix)>>
    ELSE ParamDescriptionReport(docblock, tag, realParam)

\* The callback of paramTags.some(...): the report for one @param tag and
\* the real parameter at its position, <<>> when the tag passes.
ParamTagReport(docblock, tag, realParam) ==
    IF tag.type = <<>>
    THEN <<Report("params", "@param must include a type.", NoFix)>>
    ELSE IF tag.name = <<>>
    THEN <<Report("params", "@param must include a name.", NoFix)>>
    ELSE IF realParam.name # tag.name
    THEN <<Report("params", "@param ... does not match declaration parameter ...",
             TagLineFix(docblock, tag, Braced(tag.type) \o <<" ">> \o tag.name,
                        Braced(tag.type) \o <<" ">> \o realParam.name))>>
    ELSE ParamTypeReport(docblock, tag, realParam,
                         getExpectedType(tag.type, realParam, realParam.hasDefault))

\* validate, the alignment check.
AlignmentReport(docblock, aligned, unaligned) ==
    IF aligned = unaligned THEN <<>>
    ELSE <<Report("params", "@param tags must be aligned consistently.",
             replaceText(docblock, sOpen \o replaceParamLines(docblock.value, aligned) \o sClose))>>

ParamTagReports(docblock, paramTags, realParams) ==
    [i \in 1..Len(paramTags) |-> ParamTagReport(docblock, paramTags[i], realParams[i])]

IsParamTag(tag) == tag.tag = Tail(sAtParam)

\* validate, from the count checks on.
ParamsReports(docblock, paramTags, realParams) ==
    IF Len(realParams) = 0 /\ 0 < Len(paramTags)
    THEN <<Report("params",
             "Declaration has no parameters but @param tags are present in docblock.", NoFix)>>
    ELSE IF 0 < Len(realParams) /\ Len(paramTags) = 0
    THEN <<Report("params",
             "Declaration has parameters but no @param tags in the docblock.", NoFix)>>
    ELSE IF Len(realParams) # Len(paramTags)
    THEN <<Report("params",
             "Number of parameters in declaration does not match number of @param tags in docblock.",
             NoFix)>>
    ELSE IF FirstReport(ParamTagReports(docblock, paramTags, realParams)) # <<>>
    THEN FirstReport(ParamTagReports(docblock, paramTags, realParams))
    ELSE AlignmentReport(docblock, getAlignedParams(paramTags), getUnalignedParams(docblock))

\* The params rule's validate(node), after getDocblockData: the tags are
\* read as `data.tags`, a property the list of blocks does not have.
validateParams(f, dd, node) ==
    IF ~dd.found THEN <<>>
    ELSE ParamsReports(f.comments[dd.docblock],
                       SelectSeq(ArrayTagsProperty(dd.data), IsParamTag),
                       getNodeParams(f, node))

\* The node types the params rule listens to.
ParamsListens == {"FunctionExpression", "ArrowFunctionExpression"}

(***************************************************************************)
(* The returns rule (rules/docblock-validate-returns.mjs)                  *)
(***************************************************************************)
sReturn    == <<"r", "e", "t", "u", "r", "n">>
sAtReturn  == <<"@">> \o sReturn
sAtReturns == sAtReturn \o <<"s">>

IsReturnsTag(tag) == tag.tag \in {sReturn, sReturn \o <<"s">>}

\* fixer.replaceText(docblock, `/*${docblock.value.replace(from, to)}*/`)
DocblockFix(docblock, from, to) ==
    replaceText(docblock, sOpen \o ReplaceFirst(docblock.value, from, to) \o sClose)

\* expectedType.split('|').some((t) => 'object' === t.trim())
HasGenericObject(expectedType) ==
    \E i \in 1..Len(Split(expectedType, "|")) : Trim(Split(expectedType, "|")[i]) = sObject

\* `@returns {type}` followed by the name and the description the tag has.
ReturnsContent(tag) ==
    sAtReturns \o <<" ">> \o Braced(tag.type)
        \o (IF tag.name # <<>> THEN <<" ">> \o tag.name ELSE <<>>)
        \o (IF tag.description # <<>> THEN <<" ">> \o tag.description ELSE <<>>)

\* validate, the checks of the one @returns tag.
ReturnsTagReport(docblock, tag) ==
    IF tag.tag = sReturn
    THEN <<Report("returns", "Use \"@returns\" instead of \"@return\".",
             DocblockFix(docblock, sAtReturn, sAtReturns))>>
    ELSE IF tag.type = <<>>
    THEN <<Report("returns", "@returns must include a type.", NoFix)>>
    ELSE IF normalizeTypes(tag.type) # tag.type
    THEN <<Report("returns", "@returns type is ... but should be ...",
             DocblockFix(docblock, sAtReturns \o <<" ">> \o Braced(tag.type),
                         sAtReturns \o <<" ">> \o Braced(normalizeTypes(tag.type))))>>
    ELSE IF HasGenericObject(normalizeTypes(tag.type))
    THEN <<Report("returns", "@returns should not use generic \"object\" type.", NoFix)>>
    ELSE IF tag.name # <<>> \/ tag.description # <<>>
    THEN <<Report("returns", "@returns must not include a description.",
             DocblockFix(docblock, ReturnsContent(tag),
                         sAtReturns \o <<" ">> \o Braced(tag.type)))>>
    ELSE <<>>

\* validate, from the count checks on.
ReturnsReports(docblock, returnsTags) ==
    IF returnsTags = <<>>
    THEN <<Report("returns", "Declaration must have a return type even if it is void.",
             NoFix)>>
    ELSE IF 1 < Len(returnsTags)
    THEN <<Report("returns", "Declaration must have only one @returns tag.", NoFix)>>
    ELSE ReturnsTagReport(docblock, returnsTags[1])

\* The returns rule's validate(node), after getDocblockData: the tags are
\* read as `data.tags`, a property the list of blocks does not have.
validateReturns(f, dd) ==
    IF ~dd.found THEN <<>>
    ELSE ReturnsReports(f.comments[dd.docblock],
                        SelectSeq(ArrayTagsProperty(dd.data), IsReturnsTag))

\* The node types the returns rule listens to.
ReturnsListens == {"FunctionExpression", "ArrowFunctionExpression"}

(***************************************************************************)
(* The class tags rule (src/unnamed/part_017)                              *)
(***************************************************************************)
sAbstract  == <<"a", "b", "s", "t", "r", "a", "c", "t">>
sExtends   == <<"e", "x", "t", "e", "n", "d", "s">>
sAtExtends == <<"@">> \o sExtends

\* isClassAbstract, the statements of one method from the i-th on: "true"
\* at the first `throw new Error(message)` whose message includes
\* 'abstract', "raise" at the first whose argument's value is neither a
\* string nor nullish (`errorMessage.includes` is not a function), and
\* "false" when the statements are exhausted.
RECURSIVE AbstractInStatements(_, _)
AbstractInStatements(statements, i) ==
    IF i > Len(statements) THEN "false"
    ELSE IF /\ statements[i].type = "ThrowStatement"
            /\ statements[i].argument.type = "NewExpression"
            /\ statements[i].argument.callee = "Error"
    THEN (IF statements[i].argument.value.of = "other" THEN "raise"
          ELSE IF Includes(statements[i].argument.value.text, sAbstract) THEN "true"
          ELSE AbstractInStatements(statements, i + 1))
    ELSE AbstractInStatements(statements, i + 1)

\* isClassAbstract, the members of the class from node m on.
RECURSIVE AbstractInMembers(_, _, _)
AbstractInMembers(f, classNode, m) ==
    IF m > Len(f.nodes) THEN "false"
    ELSE IF /\ f.nodes[m].type = "MethodDefinition"
            /\ ParentOf(f, ParentOf(f, m)) = classNode
            /\ f.nodes[m].child # 0
            /\ AbstractInStatements(f.nodes[f.nodes[m].child].body.block, 1) # "false"
    THEN AbstractInStatements(f.nodes[f.nodes[m].child].body.block, 1)
    ELSE AbstractInMembers(f, classNode, m + 1)

\* isClassAbstract: "true", "false", or "raise" when the call raises a
\* TypeError.
isClassAbstract(f, classNode, lang) ==
    IF lang = "ts" THEN (IF f.nodes[classNode].abstract THEN "true" ELSE "false")
    ELSE AbstractInMembers(f, classNode, 1)

IsAbstractTag(tag) == tag.tag = sAbstract

IsExtendsTag(tag) == tag.tag = sExtends

\* extendsTag.name || extendsTag.description?.split(' ')[0] || ''
TagSuperClassName(tag) ==
    IF tag.name # <<>> THEN tag.name ELSE Split(tag.description, " ")[1]

\* docblock.value.replace(/@extends\s+\S+/, `@extends ${superClassName}`):
\* where the first match starts at or after from, and how long it is.
RECURSIVE SpaceLen(_)
SpaceLen(s) == IF s # <<>> /\ IsSpace(Head(s)) THEN 1 + SpaceLen(Tail(s)) ELSE 0

ExtendsMatchLen(s) ==
    IF /\ StartsWith(s, sAtExtends)
       /\ SpaceLen(Drop(s, Len(sAtExtends))) > 0
       /\ WordLen(TrimStart(Drop(s, Len(sAtExtends)))) > 0
    THEN Len(sAtExtends) + SpaceLen(Drop(s, Len(sAtExtends)))
         + WordLen(TrimStart(Drop(s, Len(sAtExtends))))
    ELSE 0

RECURSIVE ReplaceExtends(_, _)
ReplaceExtends(s, superClassName) ==
    IF s = <<>> THEN <<>>
    ELSE IF ExtendsMatchLen(s) > 0
    THEN sAtExtends \o <<" ">> \o superClassName \o Drop(s, ExtendsMatchLen(s))
    ELSE <<Head(s)>> \o ReplaceExtends(Tail(s), superClassName)

\* The value `undefined`, which no text equals.
Undefined == <<"undefined">>

\* `${value}`
Interpolated(value) ==
    IF value = Undefined THEN <<"u", "n", "d", "e", "f", "i", "n", "e", "d">> ELSE value

\* `realNode.superClass.name`: the name of an identifier; a member
\* expression (`ns.Base`) has no property `name`.
NameOfSuperClass(superClass) ==
    IF Includes(superClass, <<".">>) THEN Undefined ELSE superClass

\* validate, the @extends checks of a class with a superClass.
ExtendsReports(docblock, extendsTags, superClassName) ==
    IF extendsTags = <<>>
    THEN <<Report("classTags", "Class ... extends ... and must have @extends tag.", NoFix)>>
    ELSE IF 1 < Len(extendsTags)
    THEN <<Report("classTags",
             "Class ... extends ... and must have exactly one @extends tag.", NoFix)>>
    ELSE IF superClassName # TagSuperClassName(extendsTags[1])
    THEN <<Report("classTags",
             "@extends tag must specify the correct parent class name: ...",
             replaceText(docblock,
                 sOpen \o ReplaceExtends(docblock.value, Interpolated(superClassName))
                       \o sClose))>>
    ELSE <<>>

\* validate, from the @abstract checks on.
ClassReports(docblock, tags, abstract, superClass) ==
    IF abstract /\ SelectSeq(tags, IsAbstractTag) = <<>>
    THEN <<Report("classTags", "Abstract class ... must have @abstract tag.", NoFix)>>
    ELSE IF abstract /\ 1 < Len(SelectSeq(tags, IsAbstractTag))
    THEN <<Report("classTags", "Abstract class ... must have only one @abstract tag.",
             NoFix)>>
    ELSE IF superClass # <<>>
    THEN ExtendsReports(docblock, SelectSeq(tags, IsExtendsTag), NameOfSuperClass(superClass))
    ELSE <<>>

\* The class tags rule's validate(node), after getDocblockData.
validateClassTags(f, dd, lang) ==
    IF ~dd.found \/ dd.kind # "class" THEN <<>>
    ELSE ClassReports(f.comments[dd.docblock], FirstBlockTags(dd.data),
                      isClassAbstract(f, dd.realNode, lang) = "true",
                      f.nodes[dd.realNode].superClass)

\* validate raises the TypeError of isClassAbstract.
validateClassTagsRaises(f, dd, lang) ==
    dd.found /\ dd.kind = "class" /\ isClassAbstract(f, dd.realNode, lang) = "raise"

\* The node types the class tags rule listens to.
ClassTagsListens == {"ClassDeclaration", "ExportNamedDeclaration", "ExportDefaultDeclaration"}

(***************************************************************************)
(* The description rule (rules/docblock-validate-description.mjs)          *)
(***************************************************************************)
MinClassDescription == 50
MinFunctionDescription == 10
MaxDescription == 400

\* `data.description?.trim() ?? ''`, data being the array parse() returned:
\* an array has no property `description`, so this is always ''.
ArrayDescriptionProperty(data) == <<>>

\* validate, from the description on.
DescriptionReports(docblock, description, isClass) ==
    IF description = <<>>
    THEN <<Report("description", "Docblock must have a description.", NoFix)>>
    ELSE IF ~EndsWith(description, <<".">>)
    THEN <<Report("description", "Docblock description must end with a period.",
             replaceText(docblock,
                 sOpen \o ReplaceFirst(docblock.value, description, description \o <<".">>)
                       \o sClose))>>
    ELSE IF (IF isClass THEN MinClassDescription ELSE MinFunctionDescription)
                > Len(description)
    THEN <<Report("description",
             IF isClass THEN "Docblock description for class must be at least 50 characters long."
             ELSE "Docblock description for function must be at least 10 characters long.",
             NoFix)>>
    ELSE IF MaxDescription < Len(description)
    THEN <<Report("description", "Docblock description for ... must not exceed 400 characters.",
             NoFix)>>
    ELSE <<>>

\* The description rule's validate(node), after getDocblockData.
validateDescription(f, dd, node) ==
    IF ~dd.found THEN <<>>
    ELSE DescriptionReports(f.comments[dd.docblock],
                            Trim(ArrayDescriptionProperty(dd.data)),
                            TypeOf(f, node) \in {"ClassDeclaration", "ClassExpression"})

\* The node types the description rule listens to.
DescriptionListens ==
    {"ClassDeclaration", "ClassExpression", "FunctionExpression", "ArrowFunctionExpression"}

(***************************************************************************)
(* The allowed tags rule (src/unnamed/part_014)                            *)
(***************************************************************************)
sSee        == <<"s", "e", "e">>
sDeprecated == <<"d", "e", "p", "r", "e", "c", "a", "t", "e", "d">>
sParam      == <<"p", "a", "r", "a", "m">>
sReturns    == <<"r", "e", "t", "u", "r", "n", "s">>
sTodo       == <<"t", "o", "d", "o">>
sExample    == <<"e", "x", "a", "m", "p", "l", "e">>

\* `data[0]?.examples ?? []`: a block of comment-parser has a description,
\* tags, a source and problems, and no property `examples`.
FirstBlockExamples(data) == <<>>

\* validate: the allowed tags of the declaration's kind and the language.
allowedTags(kind, lang) ==
    IF kind = "class" THEN <<sAbstract, sExtends, sSee, sDeprecated>>
    ELSE IF lang = "js"
    THEN <<sParam, sThrows, sThrow, sSee, sDeprecated, sReturns, sReturn>>
    ELSE IF lang = "ts"
    THEN <<sParam, sThrows, sThrow, sSee, sDeprecated>>
    ELSE <<>>

InSeq(x, seq) == \E i \in 1..Len(seq) : seq[i] = x

\* validate, the callback of tags.some: what it reports for a tag.
AllowedTagReport(tag, kind, lang) ==
    IF tag.tag = sTodo
    THEN <<Report("allowedTags",
             "@todo must be inserted in to docblock description (e.g. TODO: Fix the bug)",
             NoFix)>>
    ELSE IF ~InSeq(tag.tag, allowedTags(kind, lang))
    THEN <<Report("allowedTags", "@... tag is not allowed in ... docblocks. Allowed tags: ....",
             NoFix)>>
    ELSE <<>>

\* validate, from the examples on: tags.some stops at the first tag its
\* callback reports.
AllowedReports(examples, tags, kind, lang) ==
    IF 0 < Len(examples)
    THEN <<Report("allowedTags", "@example tags are not allowed in docblocks.", NoFix)>>
    ELSE FirstReport([i \in 1..Len(tags) |-> AllowedTagReport(tags[i], kind, lang)])

\* The allowed tags rule's validate(node), after getDocblockData.
validateAllowedTags(f, dd, lang) ==
    IF ~dd.found THEN <<>>
    ELSE AllowedReports(FirstBlockExamples(dd.data), FirstBlockTags(dd.data), dd.kind, lang)

\* The node types the allowed tags rule listens to.
AllowedTagsListens ==
    {"ClassDeclaration", "MethodDefinition", "FunctionExpression", "ArrowFunctionExpression",
     "ExportNamedDeclaration", "ExportDefaultDeclaration", "AssignmentExpression"}

(***************************************************************************)
(* The tag order rule (src/unnamed/part_012)                               *)
(***************************************************************************)
expectedOrder == <<sSee, sDeprecated, sAbstract, sExtends, sParam, sThrows, sReturns>>

\* validate: the names of expectedOrder among the tags, each once, in the
\* order of their first appearance.
RECURSIVE actualOrder(_, _)
actualOrder(tags, presentTags) ==
    IF tags = <<>> THEN <<>>
    ELSE IF ~InSeq(Head(tags).tag, expectedOrder) \/ Head(tags).tag \in presentTags
    THEN actualOrder(Tail(tags), presentTags)
    ELSE <<Head(tags).tag>> \o actualOrder(Tail(tags), presentTags \cup {Head(tags).tag})

IsPresentIn(tags, name) == \E i \in 1..Len(tags) : tags[i].tag = name

\* validate: the names of expectedOrder that are present, in that order
\* (the second loop adds nothing: actualOrder holds expected names only).
RECURSIVE correctOrder(_, _)
correctOrder(tags, order) ==
    IF order = <<>> THEN <<>>
    ELSE (IF IsPresentIn(tags, Head(order)) THEN <<Head(order)>> ELSE <<>>)
         \o correctOrder(tags, Tail(order))

\* `correctOrder.map((tag) => `@${tag}`).join(' → ')`
orderMessage(order) ==
    Join([i \in 1..Len(order) |-> <<"@">> \o order[i]], <<" ", "→", " ">>)

\* validate, from the tags on.
TagOrderReports(tags) ==
    IF tags = <<>> THEN <<>>
    ELSE IF actualOrder(tags, {}) # correctOrder(tags, expectedOrder)
    THEN <<[rule    |-> "tagOrder",
            message |-> "Tags must be in the correct order: ....",
            fix     |-> NoFix,
            order   |-> orderMessage(correctOrder(tags, expectedOrder))]>>
    ELSE <<>>

\* The tag order rule's validate(node), after getDocblockData.
validateTagOrder(f, dd) ==
    IF ~dd.found THEN <<>> ELSE TagOrderReports(FirstBlockTags(dd.data))

\* The node types the tag order rule listens to.
TagOrderListens ==
    {"ClassDeclaration", "MethodDefinition", "FunctionExpression", "ArrowFunctionExpression",
     "ExportNamedDeclaration", "ExportDefaultDeclaration", "AssignmentExpression"}

(***************************************************************************)
(* The spacing rule (rules/docblock-validate-spacing.mjs)                  *)
(***************************************************************************)
sStarAt == <<"*", " ", "@">>

\* '*' === line.trim()
IsBlankLine(line) == Trim(line) = <<"*">>

\* getTagLines: the indices of the lines that start a tag.
getTagLines(lines) == {i \in 1..Len(lines) : StartsWith(Trim(lines[i]), sStarAt)}

MinOf(S) == CHOOSE i \in S : \A j \in S : i <= j

LastOf(S) == CHOOSE i \in S : \A j \in S : j <= i

\* `parsed[0]?.description?.trim() ?? ''`
FirstBlockDescription(data) == IF data = <<>> THEN <<>> ELSE Trim(data[1].description)

\* validate: the line before the first tag line is a blank comment line.
hasLineAfterDescription(lines) ==
    /\ getTagLines(lines) # {}
    /\ 1 < MinOf(getTagLines(lines))
    /\ IsBlankLine(lines[MinOf(getTagLines(lines)) - 1])

\* validate: a blank line stands between two consecutive tag lines.
hasBlankBetween(lines) ==
    \E i, k \in getTagLines(lines) :
        /\ i < k
        /\ \E j \in (i + 1)..(k - 1) : IsBlankLine(lines[j])

\* The fix of the blank lines between tags: the lines without the blank
\* lines that have a tag line before them and a tag line after them.
RECURSIVE LinesWithoutBlanksBetweenTags(_, _)
LinesWithoutBlanksBetweenTags(lines, j) ==
    IF j > Len(lines) THEN <<>>
    ELSE (IF /\ IsBlankLine(lines[j])
             /\ \E i \in getTagLines(lines) : i < j
             /\ \E i \in getTagLines(lines) : i > j
          THEN <<>> ELSE <<lines[j]>>)
         \o LinesWithoutBlanksBetweenTags(lines, j + 1)

\* validate: a blank line after the last tag line and before the last line.
hasBlankAfterLast(lines) ==
    /\ getTagLines(lines) # {}
    /\ \E j \in (LastOf(getTagLines(lines)) + 1)..(Len(lines) - 1) : IsBlankLine(lines[j])

\* validate: the count of consecutive blank lines exceeds one.
hasDoubleBlank(lines) ==
    \E i \in 1..(Len(lines) - 1) : IsBlankLine(lines[i]) /\ IsBlankLine(lines[i + 1])

\* validate, from the parsed block on.
SpacingReports(docblock, description, tags, lines) ==
    IF description # <<>> /\ 0 < Len(tags) /\ ~hasLineAfterDescription(lines)
    THEN <<Report("spacing", "There must be a blank line after the description.", NoFix)>>
    ELSE (IF hasBlankBetween(lines)
          THEN <<Report("spacing",
                   "Do not add blank lines between docblock tags. All tags must be together.",
                   replaceText(docblock,
                       sOpen \o Join(LinesWithoutBlanksBetweenTags(lines, 1), <<"\n">>)
                             \o sClose))>>
          ELSE <<>>)
         \o (IF hasBlankAfterLast(lines)
             THEN <<Report("spacing", "Unexpected blank line after last docblock tag.", NoFix)>>
             ELSE <<>>)
         \o (IF hasDoubleBlank(lines)
             THEN <<Report("spacing",
                      "Multiple consecutive blank lines are not allowed in docblocks.", NoFix)>>
             ELSE <<>>)

\* The spacing rule's validate(node).
validateSpacing(f, node) ==
    IF getDocblock(f, node) = 0 THEN <<>>
    ELSE SpacingReports(f.comments[getDocblock(f, node)],
                        FirstBlockDescription(parse(f.comments[getDocblock(f, node)].value)),
                        FirstBlockTags(parse(f.comments[getDocblock(f, node)].value)),
                        Split(f.comments[getDocblock(f, node)].value, "\n"))

\* createExportValidator (src/unnamed/part_011): an export is validated when
\* it holds an arrow function.
createExportValidator(f, node) ==
    IF TypeOf(f, node) = "ExportNamedDeclaration"
    THEN /\ f.nodes[node].child # 0
         /\ TypeOf(f, f.nodes[node].child) = "VariableDeclaration"
         /\ f.nodes[f.nodes[node].child].child # 0
         /\ TypeOf(f, f.nodes[f.nodes[f.nodes[node].child].child].child)
                = "ArrowFunctionExpression"
    ELSE IF TypeOf(f, node) = "ExportDefaultDeclaration"
    THEN TypeOf(f, f.nodes[node].child) = "ArrowFunctionExpression"
    ELSE TRUE

\* The node types the spacing rule listens to.
SpacingListens ==
    {"ClassDeclaration", "MethodDefinition", "ArrowFunctionExpression",
     "ExportNamedDeclaration", "ExportDefaultDeclaration"}

(***************************************************************************)
(* State                                                                   *)
(***************************************************************************)
VARIABLES
    pc,          \* what the host is doing: "type"/"typed" (a type is canonicalized),
                 \* "params"/"expected" (the expected types of parameters are
                 \* computed), "lint" (a pass over the file is running), "raised"
                 \* (a listener raised an exception, which ended the pass)
    members,     \* the member types a documented type expression is written from
    rawType,     \* the documented type expression, as text
    canonType,   \* normalizeTypes(rawType), once computed
    realParams,  \* the expanded parameters of the file's function, once computed
    expectedTypes, \* the type getExpectedType gives for each of realParams
    answer,      \* what getDocblock or normalizeNode, called on a node, returned
    whitelist,   \* EmojiLinter: this.whitelist, the emojis the configuration allows
    content,     \* EmojiLinter: the text of the file given to lintFile and fixFile
    before,      \* EmojiLinter: the text of the file before fixFile rewrote it
    matches,     \* EmojiLinter: what lintFile returned last
    file,        \* the file being linted: its syntax tree and its comments
    rules,       \* the rules the configuration enables
    language,    \* the `language` option the configuration gives the rules
    caches,      \* docblockCaches: for each rule's context, the docblock keys seen
    visited,     \* the <<rule, node>> listener calls the traversal has made
    handed,      \* the <<rule, docblock key>> of every non-null getDocblockData result
    returned,    \* the realNode of every non-null getDocblockData result: the rule
                 \* it was returned to, the node, and the kind attached to it
    reports,     \* what the rules have passed to context.report, in order
    passes       \* how many times the host has started linting again: the file
                 \* after a fix was applied, or another file

emojiVars == <<whitelist, content, before, matches>>

typeVars ==
    <<members, rawType, canonType, realParams, expectedTypes, answer,
      whitelist, content, before, matches>>

lintVars == <<file, rules, language, caches, visited, handed, returned, reports, passes>>

vars ==
    <<pc, members, rawType, canonType, realParams, expectedTypes, answer,
      whitelist, content, before, matches,
      file, rules, language, caches, visited, handed, returned, reports, passes>>

NoAnswer == [op |-> "none", node |-> 0, result |-> 0]

NoEmoji ==
    /\ whitelist = {}
    /\ content = <<>>
    /\ before = <<>>
    /\ matches = <<>>

RuleNames == {"throws", "params", "returns", "classTags"}

\* The rules that look their docblock up with getDocblockData: each has a
\* context of its own, and docblockCaches holds one cache per context.
ContextRules == RuleNames \cup {"description", "allowedTags", "tagOrder"}

\* A plausible slip: one cache for every context.
contextCacheShared(cs, rule) == UNION {cs[r] : r \in DOMAIN cs}

\* utils.mjs getDocblockData: docblockCaches.get(context)
contextCache(cs, rule) == cs[rule]

NoLint ==
    /\ file = NoFile
    /\ rules = {}
    /\ caches = [r \in ContextRules |-> {}]
    /\ visited = {}
    /\ handed = <<>>
    /\ returned = {}
    /\ language = "js"
    /\ reports = <<>>
    /\ passes = 0

\* A lint pass starts: every rule is created with a fresh context, nothing
\* is cached, visited or reported.
StartPass(f, enabled) ==
    /\ pc = "lint"
    /\ file = f
    /\ rules = enabled
    /\ caches = [r \in ContextRules |-> {}]
    /\ visited = {}
    /\ handed = <<>>
    /\ returned = {}
    /\ language = "js"
    /\ reports = <<>>
    /\ passes = 0

(***************************************************************************)
(* Type canonicalization: the documented types normalizeTypes is given     *)
(***************************************************************************)
MaxTypeAtoms == 2
MaxMembers == 3

TypeAtoms ==
    {<<"*">>, sArrayLc, ToLowerCase(sDate), sFoo, sBrackets, sArrayOpen \o sFoo \o <<">">>}

\* A member of a union: no `|`, no surrounding white space.
MemberTypes == {Concat(a) : a \in SeqsUpTo(TypeAtoms, MaxTypeAtoms) \ {<<>>}}

\* The later members of a union are single atoms.
TailMembers == SeqsUpTo(TypeAtoms, MaxMembers - 1)

\* `A|B` and `A | B` are both written.
UnionSeparators == {<<"|">>, <<" ", "|", " ">>}

NoTypes ==
    /\ members = <<>>
    /\ rawType = <<>>
    /\ canonType = <<>>
    /\ realParams = <<>>
    /\ expectedTypes = <<>>
    /\ answer = NoAnswer
    /\ NoEmoji

TypesInit ==
    /\ pc = "type"
    /\ NoLint
    /\ \E first \in MemberTypes, rest \in TailMembers, sep \in UnionSeparators :
          /\ members = <<first>> \o rest
          /\ rawType = Join(<<first>> \o rest, sep)
    /\ canonType = <<>>
    /\ realParams = <<>>
    /\ expectedTypes = <<>>
    /\ answer = NoAnswer
    /\ NoEmoji

\* A validator canonicalizes the documented type (params-js.mjs:292,
\* returns.mjs:76, throws validator:359).
Canonicalize ==
    /\ pc = "type"
    /\ canonType' = normalizeTypes(rawType)
    /\ pc' = "typed"
    /\ UNCHANGED <<members, rawType, realParams, expectedTypes, answer>>
    /\ UNCHANGED emojiVars
    /\ UNCHANGED lintVars

TypesNext == Canonicalize

SpecTypes == TypesInit /\ [][TypesNext]_vars

Listened(rule, listens) ==
    {n \in 1..Len(file.nodes) : file.nodes[n].type \in listens /\ <<rule, n>> \notin visited}

\* `handed` after a listener call of rule whose getDocblockData gave dd.
handedAfter(h, f, rule, dd) ==
    IF dd.found THEN Append(h, <<rule, docblockKey(f.comments[dd.docblock])>>) ELSE h

\* `returned` after a listener call of rule whose getDocblockData gave dd.
returnedAfter(r, rule, dd) ==
    IF dd.found THEN r \cup {[rule |-> rule, node |-> dd.realNode, kind |-> dd.kind]}
    ELSE r

\* What the getDocblockData call of a listener leaves behind, whatever the
\* rule: the context's cache, the record of the call, and the docblock
\* handed to the rule.
Lookup(rule, n) ==
    /\ caches' = [caches EXCEPT
                    ![rule] = cacheAfterLookup(file, contextCache(caches, rule), n)]
    /\ visited' = visited \cup {<<rule, n>>}
    /\ handed' = handedAfter(handed, file, rule,
                             getDocblockData(file, contextCache(caches, rule), n))
    /\ returned' = returnedAfter(returned, rule,
                                 getDocblockData(file, contextCache(caches, rule), n))
    /\ UNCHANGED <<file, rules, language, passes>>
    /\ UNCHANGED typeVars

\* A listener call that returns: what it reports is added to the reports.
Visit(rule, n, newReports) ==
    /\ Lookup(rule, n)
    /\ reports' = reports \o newReports
    /\ UNCHANGED pc

\* A listener call that raises an exception after its lookup: nothing is
\* reported, and the exception ends the linting of the file.
Raise(rule, n) ==
    /\ Lookup(rule, n)
    /\ pc' = "raised"
    /\ UNCHANGED reports

\* The throws rule's validate(node).
ThrowsValidate ==
    /\ pc = "lint"
    /\ "throws" \in rules
    /\ \E n \in Listened("throws", ThrowsListens) :
          Visit("throws", n,
                validateThrows(file, getDocblockData(file, contextCache(caches, "throws"), n)))

\* The params rule's validate(node).
ParamsValidate ==
    /\ pc = "lint"
    /\ "params" \in rules
    /\ \E n \in Listened("params", ParamsListens) :
          Visit("params", n,
                validateParams(file, getDocblockData(file, contextCache(caches, "params"), n), n))

\* The returns rule's validate(node).
ReturnsValidate ==
    /\ pc = "lint"
    /\ "returns" \in rules
    /\ \E n \in Listened("returns", ReturnsListens) :
          Visit("returns", n,
                validateReturns(file, getDocblockData(file, contextCache(caches, "returns"), n)))

\* The class tags rule's validate(node).
ClassTagsValidate ==
    /\ pc = "lint"
    /\ "classTags" \in rules
    /\ \E n \in Listened("classTags", ClassTagsListens) :
          IF validateClassTagsRaises(file,
                 getDocblockData(file, contextCache(caches, "classTags"), n), language)
          THEN Raise("classTags", n)
          ELSE Visit("classTags", n,
                     validateClassTags(file,
                         getDocblockData(file, contextCache(caches, "classTags"), n),
                         language))

\* The description rule's validate(node).
DescriptionValidate ==
    /\ pc = "lint"
    /\ "description" \in rules
    /\ \E n \in Listened("description", DescriptionListens) :
          Visit("description", n,
                validateDescription(file,
                    getDocblockData(file, contextCache(caches, "description"), n), n))

\* The allowed tags rule's validate(node).
AllowedTagsValidate ==
    /\ pc = "lint"
    /\ "allowedTags" \in rules
    /\ \E n \in Listened("allowedTags", AllowedTagsListens) :
          Visit("allowedTags", n,
                validateAllowedTags(file,
                    getDocblockData(file, contextCache(caches, "allowedTags"), n), language))

\* The tag order rule's validate(node).
TagOrderValidate ==
    /\ pc = "lint"
    /\ "tagOrder" \in rules
    /\ \E n \in Listened("tagOrder", TagOrderListens) :
          Visit("tagOrder", n,
                validateTagOrder(file,
                    getDocblockData(file, contextCache(caches, "tagOrder"), n)))

\* The spacing rule's validate(node), or validateExport(node) on an export:
\* the rule calls getDocblock itself and keeps no cache.
SpacingValidate ==
    /\ pc = "lint"
    /\ "spacing" \in rules
    /\ \E n \in Listened("spacing", SpacingListens) :
          /\ visited' = visited \cup {<<"spacing", n>>}
          /\ reports' = reports \o (IF createExportValidator(file, n)
                                    THEN validateSpacing(file, n) ELSE <<>>)
    /\ UNCHANGED <<pc, file, rules, language, caches, handed, returned, passes>>
    /\ UNCHANGED typeVars

\* The traversal has called every listener of every enabled rule.
ListensOf(rule) ==
    CASE rule = "throws"    -> ThrowsListens
      [] rule = "params"    -> ParamsListens
      [] rule = "returns"   -> ReturnsListens
      [] rule = "classTags" -> ClassTagsListens
      [] rule = "description" -> DescriptionListens
      [] rule = "allowedTags" -> AllowedTagsListens
      [] rule = "tagOrder"  -> TagOrderListens
      [] rule = "spacing"   -> SpacingListens

PassDone ==
    /\ pc = "lint"
    /\ \A rule \in rules : Listened(rule, ListensOf(rule)) = {}

(***************************************************************************)
(* The throws rule on declarations of every wrapper shape, with bodies     *)
(* that nest a throw or a try in the statements the rule descends into.    *)
(***************************************************************************)
MaxDepth == 2

Expr == Leaf("ExpressionStatement")

\* A statement holding s in one of its arms.
Nest(w, s) ==
    CASE w = "consequent" -> Stmt("IfStatement", <<s>>, <<>>, <<>>)
      [] w = "alternate"  -> Stmt("IfStatement", <<Expr>>, <<s>>, <<>>)
      [] w = "case"       -> Stmt("SwitchStatement", <<Expr, s>>, <<>>, <<>>)
      [] w = "try"        -> Stmt("TryStatement", <<s>>, <<Expr>>, <<>>)
      [] w = "catch"      -> Stmt("TryStatement", <<Expr>>, <<s>>, <<>>)
      [] w = "finally"    -> Stmt("TryStatement", <<>>, <<>>, <<s>>)
      [] OTHER            -> Stmt(w, <<s>>, <<>>, <<>>)

Nestings ==
    {"consequent", "alternate", "case", "try", "catch", "finally", "BlockStatement"}
        \cup LoopTypes

RECURSIVE Statements(_)
Statements(depth) ==
    IF depth = 0 THEN {Expr, Leaf("ThrowStatement"), Leaf("ReturnStatement")}
    ELSE Statements(depth - 1) \cup {Nest(w, s) : w \in Nestings, s \in Statements(depth - 1)}

\* The function's body: a block of statements, or an arrow function's
\* expression.
Bodies ==
    {Stmt("BlockStatement", <<>>, <<>>, <<>>), Leaf("CallExpression")}
        \cup {Stmt("BlockStatement", <<s>>, <<>>, <<>>) : s \in Statements(MaxDepth)}

\* The body holds a throw statement or a try statement at some depth.
RECURSIVE HoldsThrowOrTry(_)
HoldsThrowOrTry(stmt) ==
    \/ stmt.type \in {"ThrowStatement", "TryStatement"}
    \/ \E i \in 1..Len(stmt.block) : HoldsThrowOrTry(stmt.block[i])
    \/ \E i \in 1..Len(stmt.alt) : HoldsThrowOrTry(stmt.alt[i])
    \/ \E i \in 1..Len(stmt.fin) : HoldsThrowOrTry(stmt.fin[i])

sLine(text) == <<" ", "*", " ">> \o text \o <<"\n">>

\* The value of a docblock: a description line and the given tag lines.
DocValue(tagLines) ==
    <<"*", "\n">> \o sLine(<<"D", "o", "e", "s", ".">>)
        \o Concat([i \in 1..Len(tagLines) |-> sLine(tagLines[i])]) \o <<" ">>

sThrowsTag == <<"@">> \o sThrows \o <<" ", "{">> \o sError \o <<"}", " ", "O", "n", " ", "x", ".">>

ThrowsShapes == {"var", "exportVar", "exportDefault", "assign", "method"}

FnTypesOf(shape) ==
    IF shape \in {"method", "exportClass"} THEN {"FunctionExpression"} ELSE FunctionTypes

ThrowsInit ==
    /\ NoTypes
    /\ \E shape \in ThrowsShapes, body \in Bodies, tagLines \in {<<>>, <<sThrowsTag>>} :
          \E fnType \in FnTypesOf(shape) :
             /\ body.type = "CallExpression" => fnType = "ArrowFunctionExpression"
             /\ StartPass(File(Tree(shape, fnType, <<>>, body),
                               <<Comment("Block", DocValue(tagLines), DocToken(shape))>>),
                          {"throws"})

ThrowsNext == ThrowsValidate

SpecThrows == ThrowsInit /\ [][ThrowsNext]_vars

TheFunction == file.nodes[Len(file.nodes)]

ThrowsPresenceMessages ==
    {"Declaration can throw exceptions but no @throws documentation found.",
     "Declaration has @throws documentation but no try-catch blocks or throw statements found."}

ThrowsPresenceReported ==
    \E i \in 1..Len(reports) : reports[i].message \in ThrowsPresenceMessages

DocumentsThrows == file.comments[1].value = DocValue(<<sThrowsTag>>)

(***************************************************************************)
(* C4: for every declaration the throws rule checks, a diagnostic about    *)
(* @throws presence is reported if and only if the presence of a throws    *)
(* tag differs from whether the body holds a try or a throw at any depth.  *)
(***************************************************************************)
ThrowsPresenceMirrorsBody ==
    PassDone => (ThrowsPresenceReported <=> (DocumentsThrows # HoldsThrowOrTry(TheFunction.body)))

\* The same, for the declarations that are not methods of a class.
ThrowsPresenceMirrorsFunctionBody ==
    (PassDone /\ file.nodes[1].type # "ClassDeclaration") =>
        (ThrowsPresenceReported <=> (DocumentsThrows # HoldsThrowOrTry(TheFunction.body)))

(***************************************************************************)
(* Docblock discovery: declarations of every wrapper shape, docblocks      *)
(* written before any of the tokens a node starts at, one or two rules     *)
(* enabled, and the listeners called in any order.                         *)
(***************************************************************************)
MaxDocblocks == 2

EmptyBody == Stmt("BlockStatement", <<>>, <<>>, <<>>)

\* The tokens a node of the tree starts at.
StartTokens(nodes) == {nodes[n].start : n \in 1..Len(nodes)}

\* A docblock before each of the tokens, in the order of the text.
RECURSIVE DocblocksAt(_)
DocblocksAt(tokens) ==
    IF tokens = {} THEN <<>>
    ELSE <<Comment("Block", DocValue(<<>>), CHOOSE t \in tokens : \A u \in tokens : t <= u)>>
         \o DocblocksAt(tokens \ {CHOOSE t \in tokens : \A u \in tokens : t <= u})

\* One rule, or two.
RuleSets == {{r1, r2} : r1 \in RuleNames, r2 \in RuleNames}

LocateInit ==
    /\ NoTypes
    /\ \E shape \in Shapes, enabled \in RuleSets :
          \E fnType \in FnTypesOf(shape) :
          \E tokens \in SUBSET StartTokens(ShapeNodes(shape, fnType)) :
             /\ Cardinality(tokens) \in 1..MaxDocblocks
             /\ StartPass(File(Tree(shape, fnType, <<>>, EmptyBody), DocblocksAt(tokens)),
                          enabled)

LocateNext == ThrowsValidate \/ ParamsValidate \/ ReturnsValidate \/ ClassTagsValidate

SpecLocate == LocateInit /\ [][LocateNext]_vars

(***************************************************************************)
(* C3: within one validation context, whatever the order in which the      *)
(* listeners (export wrapper, declarator's function, method, assignment)   *)
(* are called, each docblock source span is handed to the validator at     *)
(* most once.                                                              *)
(***************************************************************************)
DocblockHandedAtMostOnce ==
    \A i, j \in 1..Len(handed) : i < j => handed[i] # handed[j]

\* `export const f = () => {}` with its docblock before `export`: the
\* throws rule has been called on the export and on the function, both
\* calls locate the docblock, and it was handed over once.
DocblockHandedAtMostOnceWitness ==
    /\ PassDone
    /\ "throws" \in rules
    /\ Len(file.nodes) = 4
    /\ file.nodes[1].type = "ExportNamedDeclaration"
    /\ {<<"throws", 1>>, <<"throws", 4>>} \subseteq visited
    /\ getDocblock(file, 1) # 0
    /\ getDocblock(file, 4) = getDocblock(file, 1)
    /\ Cardinality({i \in 1..Len(handed) : handed[i][1] = "throws"}) = 1

(***************************************************************************)
(* The returns rule on functions documented with zero, one or two          *)
(* returns-family tags.                                                    *)
(***************************************************************************)
MaxReturnsTags == 2

ReturnsLines ==
    {sAtReturns \o <<" ">> \o Braced(sVoid),
     sAtReturn \o <<" ">> \o Braced(sVoid),
     sAtReturns \o <<" ">> \o Braced(sString) \o <<" ", "T", "e", "x", "t", ".">>}

FunctionShapes == {"var", "exportVar", "exportDefault", "assign", "property"}

ReturnsInit ==
    /\ NoTypes
    /\ \E shape \in FunctionShapes, fnType \in FunctionTypes,
          tagLines \in SeqsUpTo(ReturnsLines, MaxReturnsTags) :
          StartPass(File(Tree(shape, fnType, <<>>, EmptyBody),
                         <<Comment("Block", DocValue(tagLines), DocToken(shape))>>),
                    {"returns"})

ReturnsNext == ReturnsValidate

SpecReturns == ReturnsInit /\ [][ReturnsNext]_vars

\* The tags the file's docblock documents.
DocumentedTags == FirstBlockTags(parse(file.comments[1].value))

(***************************************************************************)
(* C7: a declaration must have exactly one returns-family tag: with zero   *)
(* @return/@returns tags the returns rule reports exactly 'Declaration     *)
(* must have a return type even if it is void.', with more than one it     *)
(* reports exactly one diagnostic about multiple return tags.              *)
(***************************************************************************)
ReturnsCountDiagnostics ==
    (PassDone /\ handed # <<>>) =>
        /\ Len(SelectSeq(DocumentedTags, IsReturnsTag)) = 0 =>
              /\ Len(reports) = 1
              /\ reports[1].message = "Declaration must have a return type even if it is void."
        /\ Len(SelectSeq(DocumentedTags, IsReturnsTag)) > 1 =>
              /\ Len(reports) = 1
              /\ reports[1].message = "Declaration must have only one @returns tag."

(***************************************************************************)
(* Applying a fix: the text of the comment the fix's range lies in is      *)
(* replaced in that range, and the file is laid out again.                 *)
(***************************************************************************)
\* The comment whose range holds the range of the fix.
FixTarget(f, fix) ==
    CHOOSE c \in 1..Len(f.comments) :
        /\ f.comments[c].range[1] <= fix.range[1]
        /\ fix.range[2] <= f.comments[c].range[2]

\* The text of the comment with the range of the fix replaced.
FixedText(comment, fix) ==
    Take(sOpen \o comment.value \o sClose, fix.range[1] - comment.range[1])
        \o fix.text
        \o Drop(sOpen \o comment.value \o sClose, fix.range[2] - comment.range[1])

\* The text read again: a block comment when it still opens with `/*` and
\* closes, once, at its end; otherwise no comment any more.
CommentOfText(comment, text) ==
    IF StartsWith(text, sOpen) /\ IndexOfFrom(text, sClose, 3) = Len(text) - 1
    THEN [comment EXCEPT !.value = SubSeq(text, 3, Len(text) - 2)]
    ELSE [comment EXCEPT !.type = "Text", !.value = text]

ApplyFix(f, fix) ==
    File(f.nodes,
         [c \in 1..Len(f.comments) |->
             IF c = FixTarget(f, fix)
             THEN CommentOfText(f.comments[c], FixedText(f.comments[c], fix))
             ELSE f.comments[c]])

(***************************************************************************)
(* The params rule on functions with zero to two parameters, documented    *)
(* with zero to two @param tags.                                           *)
(***************************************************************************)
MaxParamTags == 2

sItems == <<"i", "t", "e", "m", "s">>
sName  == <<"n", "a", "m", "e">>
sDanny == <<"D", "a", "n", "n", "y">>

\* `@param {type}<padding>name - description`
ParamLine(type, padding, name, description) ==
    sAtParam \o <<" ">> \o Braced(type) \o padding \o name \o <<" ", "-", " ">> \o description

ParamLines ==
    {ParamLine(sArray, <<" ">>, sItems, <<"l", "i", "s", "t", ".">>),
     ParamLine(sString, <<" ">>, sName, <<"a", " ">> \o sName \o <<".">>),
     ParamLine(sString, <<" ">>, <<"a">>, <<"T", "h", "e", " ", "a", ".">>),
     ParamLine(sNumber, <<" ", " ", " ">>, <<"b">>, <<"T", "h", "e", " ", "b", ".">>)}

ParamLists ==
    {<<>>,
     <<Identifier(sItems)>>,
     <<AssignmentPattern(Identifier(sName), Literal(sString, sDanny))>>,
     <<Identifier(<<"a">>), Identifier(<<"b">>)>>}

ParamsInit ==
    /\ NoTypes
    /\ \E shape \in FunctionShapes, fnType \in FunctionTypes, params \in ParamLists,
          tagLines \in SeqsUpTo(ParamLines, MaxParamTags) :
          StartPass(File(Tree(shape, fnType, params, EmptyBody),
                         <<Comment("Block", DocValue(tagLines), DocToken(shape))>>),
                    {"params"})

ParamsNext == ParamsValidate

SpecParams == ParamsInit /\ [][ParamsNext]_vars

\* The expanded real parameters of the file's function, and the @param
\* tags its docblock documents.
RealParams == getNodeParams(file, Len(file.nodes))

DocumentedParams == SelectSeq(DocumentedTags, IsParamTag)

ParamsOf(value) == SelectSeq(FirstBlockTags(parse(value)), IsParamTag)

ParamCountMessages ==
    {"Declaration has no parameters but @param tags are present in docblock.",
     "Declaration has parameters but no @param tags in the docblock.",
     "Number of parameters in declaration does not match number of @param tags in docblock."}

(***************************************************************************)
(* C2: for a declaration with N expanded real parameters and M @param tags *)
(* with M # N, the params rule reports exactly one aggregate count         *)
(* diagnostic and no per-tag or alignment diagnostic.                      *)
(***************************************************************************)
CountMismatchReportsAggregate ==
    (PassDone /\ handed # <<>> /\ Len(RealParams) # Len(DocumentedParams)) =>
        /\ Len(reports) = 1
        /\ reports[1].message \in ParamCountMessages

\* The column the description of a @param line starts at.
DescriptionColumn(line) == IndexOf(line, <<" ", "-", " ">>)

SameDescriptionColumn(value) ==
    \A i, j \in 1..Len(SelectSeq(Split(value, "\n"), HasParam)) :
        DescriptionColumn(SelectSeq(Split(value, "\n"), HasParam)[i])
            = DescriptionColumn(SelectSeq(Split(value, "\n"), HasParam)[j])

\* The @param tags match the parameters in number and pass the per-tag checks.
ParamTagsPass ==
    /\ Len(RealParams) = Len(DocumentedParams)
    /\ Len(DocumentedParams) > 0
    /\ FirstReport(ParamTagReports(file.comments[1], DocumentedParams, RealParams)) = <<>>

\* Nothing is left to align in the docblock.
AlignedDocblock(docblock) ==
    AlignmentReport(docblock, getAlignedParams(ParamsOf(docblock.value)),
                    getUnalignedParams(docblock)) = <<>>

(***************************************************************************)
(* C5: for a run of @param tags with arbitrary padding that passes the     *)
(* per-tag checks, the alignment fix produces text in which every @param   *)
(* line's description starts at the same column, and the alignment check   *)
(* reports nothing on that text.                                           *)
(***************************************************************************)
AlignmentFixAligns ==
    (PassDone /\ handed # <<>> /\ ParamTagsPass /\ ~AlignedDocblock(file.comments[1])) =>
        /\ Len(reports) = 1
        /\ reports[1].message = "@param tags must be aligned consistently."
        /\ reports[1].fix.offered
        /\ SameDescriptionColumn(ApplyFix(file, reports[1].fix).comments[1].value)
        /\ AlignedDocblock(ApplyFix(file, reports[1].fix).comments[1])

(***************************************************************************)
(* C8: for a real parameter with no default whose @param tag has the right *)
(* name and a documented type t with canonicalize(t) # t, the params rule  *)
(* reports one diagnostic, and its fix rewrites just the {t} token of the  *)
(* tag to {canonicalize(t)}.                                               *)
(***************************************************************************)
TypeMismatchRewritesTypeToken ==
    (/\ PassDone /\ handed # <<>>
     /\ Len(RealParams) = 1 /\ Len(DocumentedParams) = 1
     /\ ~RealParams[1].hasDefault
     /\ DocumentedParams[1].name = RealParams[1].name
     /\ DocumentedParams[1].type # <<>>
     /\ normalizeTypes(DocumentedParams[1].type) # DocumentedParams[1].type) =>
        /\ Len(reports) = 1
        /\ reports[1].fix.offered
        /\ ApplyFix(file, reports[1].fix).comments[1].value
              = ReplaceFirst(file.comments[1].value, Braced(DocumentedParams[1].type),
                             Braced(normalizeTypes(DocumentedParams[1].type)))

(***************************************************************************)
(* C9: for a real parameter with a default whose @param description does   *)
(* not match `- Optional. <prose>. Default: <literal>.`, the params rule   *)
(* reports a diagnostic whose fix rewrites the description to that format, *)
(* and the rewritten description matches the pattern the rule checks.      *)
(***************************************************************************)
OptionalFormatFixMatches ==
    (/\ PassDone /\ handed # <<>>
     /\ Len(RealParams) = 1 /\ Len(DocumentedParams) = 1
     /\ RealParams[1].hasDefault
     /\ DocumentedParams[1].name = RealParams[1].name
     /\ ~MatchesOptionalPattern(DocumentedParams[1].description,
                                getDefaultValue(RealParams[1]))) =>
        /\ Len(reports) = 1
        /\ reports[1].fix.offered
        /\ MatchesOptionalPattern(
              ParamsOf(ApplyFix(file, reports[1].fix).comments[1].value)[1].description,
              getDefaultValue(RealParams[1]))

(***************************************************************************)
(* The expected type of parameters with a default value: a literal, an     *)
(* array literal or an object literal, given to an identifier or to a      *)
(* destructured property.                                                  *)
(***************************************************************************)
MaxElements == 2

DefaultLiterals ==
    {Literal(sString, <<"a">>), Literal(sNumber, <<"5">>),
     Literal(sBoolean, <<"t", "r", "u", "e">>)}

ArrayElements == DefaultLiterals \cup {ObjectExpression(<<>>)}

DefaultValues ==
    DefaultLiterals
        \cup {ArrayExpression(es) : es \in SeqsUpTo(ArrayElements, MaxElements)}
        \cup {ObjectExpression(<<>>),
              ObjectExpression(<<Property(<<"k">>, Literal(sNumber, <<"1">>))>>)}

\* x = d;  { a = d };  { a = d } = {}
DefaultedParams(d) ==
    {AssignmentPattern(Identifier(<<"x">>), d),
     ObjectPattern(<<Property(<<"a">>, AssignmentPattern(Identifier(<<"a">>), d))>>),
     AssignmentPattern(
         ObjectPattern(<<Property(<<"a">>, AssignmentPattern(Identifier(<<"a">>), d))>>),
         ObjectExpression(<<>>))}

ExpectedInit ==
    /\ pc = "params"
    /\ members = <<>>
    /\ rawType = sString
    /\ canonType = <<>>
    /\ realParams = <<>>
    /\ expectedTypes = <<>>
    /\ answer = NoAnswer
    /\ NoEmoji
    /\ \E fnType \in FunctionTypes, d \in DefaultValues :
          \E param \in DefaultedParams(d) :
             file = File(Tree("var", fnType, <<param>>, EmptyBody), <<>>)
    /\ rules = {}
    /\ caches = [r \in ContextRules |-> {}]
    /\ visited = {}
    /\ handed = <<>>
    /\ returned = {}
    /\ language = "js"
    /\ reports = <<>>
    /\ passes = 0

\* validate (params-js.mjs:394, 470): the parameters are expanded, and the
\* expected type of each is computed against the documented type.
ExpectTypes ==
    /\ pc = "params"
    /\ realParams' = getNodeParams(file, Len(file.nodes))
    /\ expectedTypes' =
          [i \in 1..Len(getNodeParams(file, Len(file.nodes))) |->
              getExpectedType(rawType, getNodeParams(file, Len(file.nodes))[i],
                              getNodeParams(file, Len(file.nodes))[i].hasDefault).expectedType]
    /\ pc' = "expected"
    /\ UNCHANGED <<members, rawType, canonType, answer>>
    /\ UNCHANGED emojiVars
    /\ UNCHANGED lintVars

ExpectedNext == ExpectTypes

SpecExpected == ExpectedInit /\ [][ExpectedNext]_vars

\* The default value the parameter itself is given: the right side of its
\* own assignment, or its value in the default object; NoSyn when it has
\* none of its own.
OwnDefault(realParam) ==
    IF realParam.property = NoSyn THEN RightOf(realParam.originalParam)
    ELSE IF realParam.property.parts[1].type = "AssignmentPattern"
    THEN realParam.property.parts[1].parts[2]
    ELSE IF realParam.type = "AssignmentPattern" THEN realParam.property.parts[1]
    ELSE NoSyn

\* The type a default value stands for: the primitive of a literal, T[] for
\* an array literal whose elements all stand for T, any[] for an empty or a
\* heterogeneous one, object for an object literal.
RECURSIVE InferredType(_)
InferredType(d) ==
    IF d.type = "Literal" THEN d.kind
    ELSE IF d.type = "ObjectExpression" THEN sObject
    ELSE IF d.type = "ArrayExpression"
    THEN IF /\ d.parts # <<>>
            /\ \A i \in 1..Len(d.parts) : InferredType(d.parts[i]) = InferredType(d.parts[1])
         THEN InferredType(d.parts[1]) \o sBrackets
         ELSE sAny \o sBrackets
    ELSE sAny

(***************************************************************************)
(* C6: for every expanded parameter that has a default value, the expected *)
(* type is inferred from that parameter's own default value: the primitive *)
(* of a string/number/boolean literal, T[] or any[] for an array literal,  *)
(* object for an object literal.                                           *)
(***************************************************************************)
ExpectedTypeFromOwnDefault ==
    pc = "expected" =>
        \A i \in 1..Len(realParams) :
            (realParams[i].hasDefault /\ OwnDefault(realParams[i]) # NoSyn) =>
                expectedTypes[i] = InferredType(OwnDefault(realParams[i]))

\* The same, for the parameters that are not destructured properties.
ExpectedTypeFromIdentifierDefault ==
    pc = "expected" =>
        \A i \in 1..Len(realParams) :
            (realParams[i].hasDefault /\ realParams[i].type = "AssignmentPattern") =>
                expectedTypes[i] = InferredType(OwnDefault(realParams[i]))

(***************************************************************************)
(* Fixing: the file is linted, a fix on offer is applied to its text, and  *)
(* the file is linted again by rules created anew.                         *)
(***************************************************************************)
MaxFixPasses == 3

sBase == <<"B", "a", "s", "e">>

ThrowingBody == Stmt("BlockStatement", <<Leaf("ThrowStatement")>>, <<>>, <<>>)

\* `@throws {Error} On x.` and the variations of it whose every defect
\* carries a fix: the deprecated label, a type not in canonical form, a
\* description without its final period.
FixableThrowsLines ==
    {<<"@">> \o label \o <<" ">> \o Braced(type) \o <<" ">> \o text :
        label \in {sThrow, sThrows},
        type \in {sError, ToLowerCase(sError)},
        text \in {<<"O", "n", " ", "x", ".">>, <<"O", "n", " ", "x">>,
                  <<"O", "o", "p", "s">>, <<"W", "h", "e", "n", " ", "t">>}}

\* `@extends Base`, and the tag naming another class.
FixableClassLines ==
    {sAtExtends \o <<" ">> \o sBase, sAtExtends \o <<" ">> \o sFoo}

\* The tree of a class that extends superClassName.
Extending(nodes, superClassName) ==
    [n \in 1..Len(nodes) |->
        IF nodes[n].type = "ClassDeclaration"
        THEN [nodes[n] EXCEPT !.superClass = superClassName]
        ELSE nodes[n]]

FixInit ==
    /\ NoTypes
    /\ \/ \E shape \in {"var", "exportVar", "assign"}, fnType \in FunctionTypes,
             line \in FixableThrowsLines, enabled \in {{"throws"}, RuleNames} :
             StartPass(File(Tree(shape, fnType, <<>>, ThrowingBody),
                            <<Comment("Block", DocValue(<<line>>), DocToken(shape))>>),
                       enabled)
       \/ \E shape \in {"method", "exportClass"}, line \in FixableClassLines,
             enabled \in {{"classTags"}, RuleNames} :
             StartPass(File(Extending(Tree(shape, "FunctionExpression", <<>>, EmptyBody),
                                      sBase),
                            <<Comment("Block", DocValue(<<line>>), 1)>>),
                       enabled)

\* The pass is over with a fix on offer: the fix is applied and the file is
\* linted again, every rule with a fresh context.
FixAndLintAgain ==
    /\ pc = "lint"
    /\ PassDone
    /\ passes < MaxFixPasses
    /\ \E i \in 1..Len(reports) :
          /\ reports[i].fix.offered
          /\ file' = ApplyFix(file, reports[i].fix)
    /\ caches' = [r \in ContextRules |-> {}]
    /\ visited' = {}
    /\ handed' = <<>>
    /\ returned' = {}
    /\ reports' = <<>>
    /\ passes' = passes + 1
    /\ UNCHANGED <<pc, rules, language>>
    /\ UNCHANGED typeVars

FixNext ==
    \/ ThrowsValidate
    \/ ParamsValidate
    \/ ReturnsValidate
    \/ ClassTagsValidate
    \/ FixAndLintAgain

SpecFix == FixInit /\ [][FixNext]_vars

(***************************************************************************)
(* C1: applying the fixes the validators offer for a docblock and running  *)
(* every validator again on the resulting text yields zero diagnostics: no *)
(* applied fix introduces a violation.                                     *)
(***************************************************************************)
FixedTextIsClean ==
    (PassDone /\ passes > 0 /\ \A i \in 1..Len(reports) : ~reports[i].fix.offered) =>
        reports = <<>>

\* The same, with the throws rule as the only rule.
FixedThrowsTextIsClean ==
    (/\ PassDone /\ passes > 0 /\ rules = {"throws"}
     /\ \A i \in 1..Len(reports) : ~reports[i].fix.offered) =>
        reports = <<>>

\* The same, with the class tags rule as the only rule.
FixedClassTextIsClean ==
    (/\ PassDone /\ passes > 0 /\ rules = {"classTags"}
     /\ \A i \in 1..Len(reports) : ~reports[i].fix.offered) =>
        reports = <<>>

(***************************************************************************)
(* Array forms: the documented types normalizeTypes is given when a type   *)
(* T is written bare, as `Array<T>` or as `T[]`.  members holds T.         *)
(***************************************************************************)
MaxNesting == 2

ArrayBaseTypes == {<<"*">>, sMixed, sUndefined, sArrayLc, sFoo, ToLowerCase(sDate)}

ArrayOf(t) == sArrayOpen \o t \o <<">">>

BracketsOf(t) == t \o sBrackets

\* The array forms of at most n levels over the base types.
RECURSIVE NestedTypes(_)
NestedTypes(n) ==
    IF n = 0 THEN ArrayBaseTypes
    ELSE LET inner == NestedTypes(n - 1)
         IN inner \cup {ArrayOf(t) : t \in inner} \cup {BracketsOf(t) : t \in inner}

\* A union of two base types.
UnionTypes == {a \o <<"|">> \o b : a, b \in ArrayBaseTypes}

ElementTypes == NestedTypes(MaxNesting - 1) \cup UnionTypes

ArraysInit ==
    /\ pc = "type"
    /\ NoLint
    /\ \E t \in ElementTypes :
          /\ members = <<t>>
          /\ rawType \in {t, ArrayOf(t), BracketsOf(t)}
    /\ canonType = <<>>
    /\ realParams = <<>>
    /\ expectedTypes = <<>>
    /\ answer = NoAnswer
    /\ NoEmoji

ArraysNext == Canonicalize

SpecArrays == ArraysInit /\ [][ArraysNext]_vars

(***************************************************************************)
(* C11: for every type expression T, `*` and `mixed` canonicalize to any,  *)
(* `undefined` to void, bare `array` to any[], and `Array<T>` to           *)
(* canonicalize(T) followed by [], recursively through nested array forms  *)
(* such as T[][] and Array<Array<T>>.                                      *)
(***************************************************************************)
ArrayFormsCanonicalize ==
    pc = "typed" =>
        /\ rawType \in {<<"*">>, sMixed} => canonType = sAny
        /\ rawType = sUndefined => canonType = sVoid
        /\ rawType = sArrayLc => canonType = sAny \o sBrackets
        /\ rawType = ArrayOf(members[1]) =>
              canonType = normalizeTypes(members[1]) \o sBrackets
        /\ (rawType = BracketsOf(members[1]) /\ ~Includes(members[1], <<"|">>)) =>
              canonType = normalizeTypes(members[1]) \o sBrackets

\* The same for an element type that is not a union.
ArrayFormsOfOneTypeCanonicalize ==
    (pc = "typed" /\ ~Includes(members[1], <<"|">>)) =>
        /\ rawType \in {<<"*">>, sMixed} => canonType = sAny
        /\ rawType = sUndefined => canonType = sVoid
        /\ rawType = sArrayLc => canonType = sAny \o sBrackets
        /\ rawType \in {ArrayOf(members[1]), BracketsOf(members[1])} =>
              canonType = normalizeTypes(members[1]) \o sBrackets

(***************************************************************************)
(* Locating: getDocblock called on each node of a file whose comments      *)
(* stand before one or two of the tokens a node starts at.                 *)
(***************************************************************************)
MaxComments == 2

\* The value of `/** Does. */` written over three lines, of the block
\* comment `/*` `newline` ` * note` `newline` ` */`, of `/* note */`, and of
\* the line comment `//* note`.
CommentKinds ==
    {[type |-> "Block", value |-> DocValue(<<>>)],
     [type |-> "Block", value |-> <<"\n">> \o <<" ", "*", " ", "n", "o", "t", "e">> \o <<"\n", " ">>],
     [type |-> "Block", value |-> <<" ", "n", "o", "t", "e", " ">>],
     [type |-> "Line",  value |-> <<"*", " ", "n", "o", "t", "e">>]}

\* A comment of the kind chosen for each of the tokens, in the order of the
\* text.
RECURSIVE CommentsAt(_, _)
CommentsAt(tokens, kindOf) ==
    IF tokens = {} THEN <<>>
    ELSE LET first == CHOOSE t \in tokens : \A u \in tokens : t <= u
         IN <<Comment(kindOf[first].type, kindOf[first].value, first)>>
            \o CommentsAt(tokens \ {first}, kindOf)

ShapeFnTypes(shape) ==
    IF shape \in FunctionShapesOf(AllShapes) THEN FunctionTypes ELSE {"FunctionExpression"}

SearchInit ==
    /\ pc = "search"
    /\ NoTypes
    /\ rules = {}
    /\ caches = [r \in ContextRules |-> {}]
    /\ visited = {}
    /\ handed = <<>>
    /\ returned = {}
    /\ language = "js"
    /\ reports = <<>>
    /\ passes = 0
    /\ \E shape \in AllShapes :
          \E fnType \in ShapeFnTypes(shape) :
          \E tokens \in SUBSET StartTokens(ShapeNodes(shape, fnType)) :
             /\ Cardinality(tokens) \in 1..MaxComments
             /\ \E kindOf \in [tokens -> CommentKinds] :
                   file = File(Tree(shape, fnType, <<>>, EmptyBody),
                               CommentsAt(tokens, kindOf))

\* A validator calls getDocblock(sourceCode, node).
Locate ==
    /\ pc = "search"
    /\ \E n \in 1..Len(file.nodes) :
          answer' = [op |-> "getDocblock", node |-> n, result |-> getDocblock(file, n)]
    /\ pc' = "searched"
    /\ UNCHANGED <<members, rawType, canonType, realParams, expectedTypes>>
    /\ UNCHANGED emojiVars
    /\ UNCHANGED lintVars

SearchNext == Locate

SpecSearch == SearchInit /\ [][SearchNext]_vars

\* The search order: the node; under a variable declarator, the enclosing
\* declaration and then its named export; under an object property, the
\* property and then the outer declaration and its export, or the outer
\* assignment.
OuterTargets(f, holder) ==
    IF TypeOf(f, holder) = "VariableDeclarator" /\ holder # 0
    THEN <<ParentOf(f, holder)>>
         \o (IF TypeOf(f, ParentOf(f, ParentOf(f, holder))) = "ExportNamedDeclaration"
             THEN <<ParentOf(f, ParentOf(f, holder))>> ELSE <<>>)
    ELSE IF TypeOf(f, holder) = "AssignmentExpression" /\ holder # 0
    THEN <<holder>>
    ELSE <<>>

SearchOrder(f, node) ==
    <<node>>
      \o (IF TypeOf(f, ParentOf(f, node)) = "VariableDeclarator"
          THEN OuterTargets(f, ParentOf(f, node)) ELSE <<>>)
      \o (IF TypeOf(f, ParentOf(f, node)) = "Property"
          THEN <<ParentOf(f, node)>>
               \o OuterTargets(f, ParentOf(f, ParentOf(f, ParentOf(f, node))))
          ELSE <<>>)

\* The block comments before target whose text starts with `*`.
StarredBlocksBefore(f, target) ==
    {c \in getCommentsBefore(f, target) :
        f.comments[c].type = "Block" /\ StartsWith(f.comments[c].value, <<"*">>)}

\* The same, the text read without the white space around it.
TrimmedStarredBlocksBefore(f, target) ==
    {c \in getCommentsBefore(f, target) :
        f.comments[c].type = "Block" /\ StartsWith(Trim(f.comments[c].value), <<"*">>)}

\* The steps of the search order at which a docblock stands.
StepsWithDocblock(f, order) ==
    {i \in 1..Len(order) : StarredBlocksBefore(f, order[i]) # {}}

TrimmedStepsWithDocblock(f, order) ==
    {i \in 1..Len(order) : TrimmedStarredBlocksBefore(f, order[i]) # {}}

(***************************************************************************)
(* C12: getDocblock returns the docblock found at the earliest step of the *)
(* search order (the node; under a variable declarator the declaration and *)
(* then the named export; under a property the property and then the outer *)
(* declaration, export or assignment), null when no step finds one, and    *)
(* only a block comment whose text starts with `*` qualifies.              *)
(***************************************************************************)
LocateFollowsSearchOrder ==
    answer.op = "getDocblock" =>
        LET order == SearchOrder(file, answer.node)
            steps == StepsWithDocblock(file, order)
        IN IF steps = {} THEN answer.result = 0
           ELSE answer.result \in
                    StarredBlocksBefore(file,
                        order[CHOOSE i \in steps : \A j \in steps : i <= j])

\* The same, a comment qualifying when its text starts with `*` after the
\* white space before it.
LocateFollowsSearchOrderOfTrimmed ==
    answer.op = "getDocblock" =>
        LET order == SearchOrder(file, answer.node)
            steps == TrimmedStepsWithDocblock(file, order)
        IN IF steps = {} THEN answer.result = 0
           ELSE answer.result \in
                    TrimmedStarredBlocksBefore(file,
                        order[CHOOSE i \in steps : \A j \in steps : i <= j])

(***************************************************************************)
(* Normalizing: normalizeNode called on each node of a file.               *)
(***************************************************************************)
\* getDocblockData calls normalizeNode(node).
Normalize ==
    /\ pc = "search"
    /\ \E n \in 1..Len(file.nodes) :
          answer' = [op |-> "normalizeNode", node |-> n, result |-> normalizeNode(file, n)]
    /\ pc' = "searched"
    /\ UNCHANGED <<members, rawType, canonType, realParams, expectedTypes>>
    /\ UNCHANGED emojiVars
    /\ UNCHANGED lintVars

NormalizeNext == Normalize

SpecNormalize == SearchInit /\ [][NormalizeNext]_vars

\* A class, a function or an arrow function.
ClassOrFunctionTypes ==
    {"ClassDeclaration", "FunctionDeclaration", "FunctionExpression",
     "ArrowFunctionExpression"}

\* The function or arrow function a variable declaration's declarator is
\* initialized with; 0 when there is none.
WrappedInitializer(f, declaration) ==
    LET declarator == f.nodes[declaration].child
        init == IF declarator = 0 THEN 0 ELSE f.nodes[declarator].child
    IN IF init # 0 /\ TypeOf(f, init) \in FunctionTypes THEN init ELSE 0

\* The declaration an export wraps; 0 when it wraps none.
WrappedDeclaration(f, wrapper, declarationTypes) ==
    LET inner == f.nodes[wrapper].child
    IN IF inner = 0 THEN 0
       ELSE IF TypeOf(f, inner) \in declarationTypes THEN inner
       ELSE IF TypeOf(f, inner) = "VariableDeclaration" THEN WrappedInitializer(f, inner)
       ELSE 0

\* The function or arrow function on the right of an assignment; 0 when
\* the right-hand side is something else.
AssignedFunction(f, assignment) ==
    LET right == f.nodes[assignment].child
    IN IF right # 0 /\ TypeOf(f, right) \in FunctionTypes THEN right ELSE 0

(***************************************************************************)
(* C13: normalizeNode returns the inner declaration for every export       *)
(* wrapper around a class, function or arrow function, or around a         *)
(* variable declaration of one declarator initialized with a function or   *)
(* arrow function; the right-hand side of an assignment whose right-hand   *)
(* side is a function or arrow function; and null exactly when the wrapper *)
(* contains no such declaration.                                           *)
(***************************************************************************)
NormalizeUnwrapsDeclarations ==
    answer.op = "normalizeNode" =>
        /\ TypeOf(file, answer.node) \in {"ExportNamedDeclaration", "ExportDefaultDeclaration"} =>
              answer.result = WrappedDeclaration(file, answer.node, ClassOrFunctionTypes)
        /\ TypeOf(file, answer.node) = "AssignmentExpression" =>
              answer.result = AssignedFunction(file, answer.node)

\* The same, a function declaration not counting as a function.
NormalizeUnwrapsExpressions ==
    answer.op = "normalizeNode" =>
        /\ TypeOf(file, answer.node) \in {"ExportNamedDeclaration", "ExportDefaultDeclaration"} =>
              answer.result = WrappedDeclaration(file, answer.node,
                                  ClassOrFunctionTypes \ {"FunctionDeclaration"})
        /\ TypeOf(file, answer.node) = "AssignmentExpression" =>
              answer.result = AssignedFunction(file, answer.node)

(***************************************************************************)
(* Kinds: one rule that looks its docblock up with getDocblockData lints a *)
(* file whose declaration, of any shape, has a docblock before one of its  *)
(* tokens.                                                                 *)
(***************************************************************************)
KindsInit ==
    /\ NoTypes
    /\ pc = "lint"
    /\ \E shape \in AllShapes, rule \in ContextRules :
          \E fnType \in ShapeFnTypes(shape) :
          \E token \in StartTokens(ShapeNodes(shape, fnType)) :
             /\ file = File(Tree(shape, fnType, <<>>, EmptyBody),
                            <<Comment("Block", DocValue(<<>>), token)>>)
             /\ rules = {rule}
    /\ language = "js"
    /\ caches = [r \in ContextRules |-> {}]
    /\ visited = {}
    /\ handed = <<>>
    /\ returned = {}
    /\ reports = <<>>
    /\ passes = 0

KindsNext ==
    \/ ThrowsValidate
    \/ ParamsValidate
    \/ ReturnsValidate
    \/ ClassTagsValidate
    \/ DescriptionValidate
    \/ AllowedTagsValidate
    \/ TagOrderValidate

SpecKinds == KindsInit /\ [][KindsNext]_vars

(***************************************************************************)
(* C14: every declaration node the discovery layer returns to a validator  *)
(* carries a kind that is one of class, method or function.                *)
(***************************************************************************)
ReturnedKindIsKnown ==
    \A r \in returned : r.kind \in {"class", "method", "function"}

\* The same for the rules that do not listen to class expressions.
ReturnedKindIsKnownBesidesDescription ==
    \A r \in returned : r.rule # "description" => r.kind \in {"class", "method", "function"}

(***************************************************************************)
(* Validation contexts: the host creates a context for every enabled rule  *)
(* each time it lints a file, and docblockCaches, a WeakMap keyed by the   *)
(* context object, has no entry for a context it has not seen.  Two rules  *)
(* are enabled, and one file after another is linted, each a declaration   *)
(* with one docblock.                                                      *)
(***************************************************************************)
MaxFiles == 2

ContextRuleSets == {{r1, r2} : r1 \in ContextRules, r2 \in ContextRules}

ContextsInit ==
    /\ NoTypes
    /\ \E shape \in Shapes, enabled \in ContextRuleSets :
          \E fnType \in FnTypesOf(shape) :
          \E token \in StartTokens(ShapeNodes(shape, fnType)) :
             StartPass(File(Tree(shape, fnType, <<>>, EmptyBody), DocblocksAt({token})),
                       enabled)

\* The host goes on to the next file: the rules are created again, each
\* with a context docblockCaches has no entry for.
LintAnotherFile ==
    /\ pc = "lint"
    /\ PassDone
    /\ passes < MaxFiles - 1
    /\ \E shape \in Shapes :
          \E fnType \in FnTypesOf(shape) :
          \E token \in StartTokens(ShapeNodes(shape, fnType)) :
             file' = File(Tree(shape, fnType, <<>>, EmptyBody), DocblocksAt({token}))
    /\ caches' = [r \in ContextRules |-> {}]
    /\ visited' = {}
    /\ handed' = <<>>
    /\ returned' = {}
    /\ reports' = <<>>
    /\ passes' = passes + 1
    /\ UNCHANGED <<pc, rules, language>>
    /\ UNCHANGED typeVars

ContextsNext ==
    \/ ThrowsValidate
    \/ ParamsValidate
    \/ ReturnsValidate
    \/ ClassTagsValidate
    \/ DescriptionValidate
    \/ AllowedTagsValidate
    \/ TagOrderValidate
    \/ LintAnotherFile

SpecContexts == ContextsInit /\ [][ContextsNext]_vars

\* The listener calls rule has made, in this file, on nodes whose docblock
\* is the comment d.
LookupsOf(rule, d) ==
    {n \in 1..Len(file.nodes) : <<rule, n>> \in visited /\ getDocblock(file, n) = d}

\* The docblock keys of the comments of the file being linted that rule's
\* listener calls have located.
KeysLocatedBy(rule) ==
    {docblockKey(file.comments[getDocblock(file, n)]) :
        n \in {m \in 1..Len(file.nodes) :
                  <<rule, m>> \in visited /\ getDocblock(file, m) # 0}}

(***************************************************************************)
(* C15: the docblock cache is scoped to one validation context (one        *)
(* rule's run on one file).  A lookup that is the only one its context has *)
(* made of a docblock is never suppressed, whatever the other contexts     *)
(* have recorded: the docblock is handed to the rule, unless the node is a *)
(* wrapper normalizeNode rejects.  And a context's cache holds only keys   *)
(* of docblocks its own lookups located in the file being linted: no entry *)
(* comes from another file.                                                *)
(***************************************************************************)
CacheIsScopedToItsContext ==
    /\ \A rule \in rules : \A n \in 1..Len(file.nodes) :
          (/\ <<rule, n>> \in visited
           /\ getDocblock(file, n) # 0
           /\ LookupsOf(rule, getDocblock(file, n)) = {n}
           /\ normalizeNode(file, n) # 0)
          => \E i \in 1..Len(handed) :
                handed[i] = <<rule, docblockKey(file.comments[getDocblock(file, n)])>>
    /\ \A rule \in ContextRules : caches[rule] = KeysLocatedBy(rule)

\* A second file has been linted to the end with two rules enabled, and a
\* docblock of it was handed to both: the first rule's record of the span
\* did not suppress the second rule's lookup, and neither did what the
\* contexts of the first file recorded.
CacheIsScopedToItsContextWitness ==
    /\ PassDone
    /\ passes = 1
    /\ \E r1 \in rules, r2 \in rules :
          /\ r1 # r2
          /\ \E i, j \in 1..Len(handed) :
                /\ handed[i][1] = r1
                /\ handed[j][1] = r2
                /\ handed[i][2] = handed[j][2]
                /\ handed[i][2] \in caches[r1] \cap caches[r2]

(***************************************************************************)
(* The tag order rule on declarations documented with up to MaxTags tags,  *)
(* a tag name written more than once included.                             *)
(***************************************************************************)
MaxTags == 3

sSince == <<"s", "i", "n", "c", "e">>

\* `@see x`, `@param x`, ...: names of the canonical sequence, and one
\* name outside it.
TagOrderLines ==
    {<<"@">> \o name \o <<" ", "x">> : name \in {sSee, sParam, sThrows, sReturns, sSince}}

TagOrderInit ==
    /\ NoTypes
    /\ \E shape \in Shapes, tagLines \in SeqsUpTo(TagOrderLines, MaxTags) :
          \E fnType \in FnTypesOf(shape) :
             StartPass(File(Tree(shape, fnType, <<>>, EmptyBody),
                            <<Comment("Block", DocValue(tagLines), DocToken(shape))>>),
                       {"tagOrder"})

TagOrderNext == TagOrderValidate

SpecTagOrder == TagOrderInit /\ [][TagOrderNext]_vars

\* The place of a tag name in the canonical sequence, 0 for a name outside.
PlaceOf(name) ==
    IF InSeq(name, expectedOrder)
    THEN CHOOSE i \in 1..Len(expectedOrder) : expectedOrder[i] = name
    ELSE 0

\* Some tag appears before a tag that precedes it in the canonical sequence.
OutOfSequence(tags) ==
    \E i, j \in 1..Len(tags) :
        /\ i < j
        /\ PlaceOf(tags[i].tag) # 0
        /\ PlaceOf(tags[j].tag) # 0
        /\ PlaceOf(tags[j].tag) < PlaceOf(tags[i].tag)

\* The same, of the first appearance of each name only.
FirstAppearance(tags, i) == \A k \in 1..(i - 1) : tags[k].tag # tags[i].tag

FirstAppearancesOutOfSequence(tags) ==
    \E i, j \in 1..Len(tags) :
        /\ i < j
        /\ FirstAppearance(tags, i)
        /\ FirstAppearance(tags, j)
        /\ PlaceOf(tags[i].tag) # 0
        /\ PlaceOf(tags[j].tag) # 0
        /\ PlaceOf(tags[j].tag) < PlaceOf(tags[i].tag)

\* One diagnostic, naming the names present in the canonical order.
OneOrderReport ==
    /\ Len(reports) = 1
    /\ reports[1].rule = "tagOrder"
    /\ reports[1].order = orderMessage(correctOrder(DocumentedTags, expectedOrder))

(***************************************************************************)
(* C16: for every docblock tag list, the tag order rule reports exactly    *)
(* one diagnostic, naming the corrected order, when some tag appears       *)
(* before a tag that precedes it in the canonical sequence see,            *)
(* deprecated, abstract, extends, param, throws, returns, and reports      *)
(* nothing when the tags appear in that sequence.                          *)
(***************************************************************************)
TagOrderReportedIffOutOfSequence ==
    (PassDone /\ handed # <<>>) =>
        IF OutOfSequence(DocumentedTags) THEN OneOrderReport ELSE reports = <<>>

\* What the rule does: it compares the first appearances of the names.
TagOrderReportedIffFirstAppearancesOutOfSequence ==
    (PassDone /\ handed # <<>>) =>
        IF FirstAppearancesOutOfSequence(DocumentedTags) THEN OneOrderReport
        ELSE reports = <<>>

(***************************************************************************)
(* The spacing rule on declarations whose docblock is written from up to   *)
(* MaxLines comment lines: a line of text, a blank comment line, a tag.    *)
(***************************************************************************)
MaxLines == 4

\* The comment lines between the opening `/**` line and the closing ` */`.
CommentLines ==
    {<<" ", "*", " ", "D", "o", "e", "s", ".">>,
     <<" ", "*">>,
     <<" ", "*", " ">> \o <<"@">> \o sSee \o <<" ", "x">>,
     <<" ", "*", " ">> \o <<"@">> \o sSince \o <<" ", "x">>}

\* The value of the comment `/**`, the comment lines, ` */`.
LinesValue(body) ==
    <<"*", "\n">> \o Concat([i \in 1..Len(body) |-> body[i] \o <<"\n">>]) \o <<" ">>

SpacingInit ==
    /\ NoTypes
    /\ \E shape \in Shapes, body \in SeqsUpTo(CommentLines, MaxLines) :
          \E fnType \in FnTypesOf(shape) :
             StartPass(File(Tree(shape, fnType, <<>>, EmptyBody),
                            <<Comment("Block", LinesValue(body), DocToken(shape))>>),
                       {"spacing"})

SpacingNext == SpacingValidate

SpecSpacing == SpacingInit /\ [][SpacingNext]_vars

\* The comment lines of the file's docblock: the lines of its value but
\* the first, which is the rest of the `/**` line, and the last, which is
\* the start of the ` */` line.
BodyLines ==
    SubSeq(Split(file.comments[1].value, "\n"), 2,
           Len(Split(file.comments[1].value, "\n")) - 1)

\* The spacing rule has validated the docblock, and the docblock has a
\* description and tags.
SpacingValidated ==
    /\ \E n \in 1..Len(file.nodes) :
          /\ <<"spacing", n>> \in visited
          /\ getDocblock(file, n) = 1
          /\ createExportValidator(file, n)
    /\ FirstBlockDescription(parse(file.comments[1].value)) # <<>>
    /\ DocumentedTags # <<>>

\* Exactly one blank comment line separates the description from the
\* first tag: the line before the tag is blank, the one before is text.
OneBlankAfterDescription(body) ==
    /\ MinOf(getTagLines(body)) >= 3
    /\ IsBlankLine(body[MinOf(getTagLines(body)) - 1])
    /\ ~IsBlankLine(body[MinOf(getTagLines(body)) - 2])

NoBlankBetweenTags(body) ==
    \A i, k \in getTagLines(body) :
        \A j \in (i + 1)..(k - 1) : ~IsBlankLine(body[j])

NoBlankAfterLastTag(body) ==
    \A j \in (LastOf(getTagLines(body)) + 1)..Len(body) : ~IsBlankLine(body[j])

NoConsecutiveBlanks(body) ==
    \A j \in 1..(Len(body) - 1) : ~(IsBlankLine(body[j]) /\ IsBlankLine(body[j + 1]))

WellSpaced(body) ==
    /\ getTagLines(body) # {}
    /\ OneBlankAfterDescription(body)
    /\ NoBlankBetweenTags(body)
    /\ NoBlankAfterLastTag(body)
    /\ NoConsecutiveBlanks(body)

(***************************************************************************)
(* C17: the spacing rule reports no diagnostic on a docblock with a        *)
(* description and tags if and only if exactly one blank comment line      *)
(* separates the description from the first tag, no blank line lies        *)
(* between any two tags, no blank line follows the last tag, and no two    *)
(* consecutive blank lines occur anywhere in the block.                    *)
(***************************************************************************)
SpacingSilentIffWellSpaced ==
    SpacingValidated => (reports = <<>> <=> WellSpaced(BodyLines))

\* The same for the docblocks whose first comment line is not blank.
SpacingSilentIffWellSpacedAfterText ==
    (SpacingValidated /\ ~IsBlankLine(BodyLines[1])) =>
        (reports = <<>> <=> WellSpaced(BodyLines))

(***************************************************************************)
(* The allowed tags rule, configured for JavaScript or for TypeScript, on  *)
(* declarations of every wrapper shape whose docblock, written before any  *)
(* of the tokens a node starts at, has up to MaxAllowedTags tags.          *)
(***************************************************************************)
MaxAllowedTags == 2

Languages == {"js", "ts"}

\* `@example x`, `@todo x`, a tag allowed everywhere, a tag allowed in
\* JavaScript function docblocks only, and a tag allowed nowhere.
AllowedTagsLines ==
    {<<"@">> \o name \o <<" ", "x">> : name \in {sExample, sTodo, sSee, sReturns, sSince}}

AllowedInit ==
    /\ NoTypes
    /\ pc = "lint"
    /\ \E shape \in Shapes, tagLines \in SeqsUpTo(AllowedTagsLines, MaxAllowedTags) :
          \E fnType \in FnTypesOf(shape) :
          \E token \in StartTokens(ShapeNodes(shape, fnType)) :
             file = File(Tree(shape, fnType, <<>>, EmptyBody),
                         <<Comment("Block", DocValue(tagLines), token)>>)
    /\ rules = {"allowedTags"}
    /\ language \in Languages
    /\ caches = [r \in ContextRules |-> {}]
    /\ visited = {}
    /\ handed = <<>>
    /\ returned = {}
    /\ reports = <<>>
    /\ passes = 0

AllowedNext == AllowedTagsValidate

SpecAllowed == AllowedInit /\ [][AllowedNext]_vars

\* The declarations the file's docblock documents: the classes, methods and
\* functions that a node the rule listens to, with the docblock located
\* for it, stands for.
DocumentedDeclarations ==
    {normalizeNode(file, n) :
        n \in {m \in 1..Len(file.nodes) :
                  /\ file.nodes[m].type \in AllowedTagsListens
                  /\ getDocblock(file, m) = 1
                  /\ normalizeNode(file, m) # 0
                  /\ getNodeKind(file, normalizeNode(file, m))
                        \in {"class", "method", "function"}}}

\* The docblock has an @example tag, a @todo tag, or a tag outside the
\* vocabulary of the kind of a declaration it documents.
HasTagNotAllowed ==
    \E d \in DocumentedDeclarations : \E i \in 1..Len(DocumentedTags) :
        \/ DocumentedTags[i].tag \in {sExample, sTodo}
        \/ ~InSeq(DocumentedTags[i].tag, allowedTags(getNodeKind(file, d), language))

(***************************************************************************)
(* C18: for every declaration kind (class, method, function) and host      *)
(* language (js, ts), a docblock containing an @example tag or a @todo tag *)
(* always produces a diagnostic from the allowed tags rule, as does any    *)
(* tag outside the vocabulary permitted for that kind and language.        *)
(***************************************************************************)
TagNotAllowedIsReported ==
    (PassDone /\ HasTagNotAllowed) => reports # <<>>

\* The same, when the docblock reached the rule's validate.
TagNotAllowedIsReportedWhenHanded ==
    (PassDone /\ HasTagNotAllowed /\ handed # <<>>) => reports # <<>>

(***************************************************************************)
(* The class tags rule on classes whose method throws errors of every      *)
(* shape: `new Error` of a string, of nothing, of a value that is not a    *)
(* string, another constructor, a plain expression.                        *)
(***************************************************************************)
MaxStatements == 2

sOops == <<"O", "o", "p", "s">>

\* 'Is abstract.'
sIsAbstract == <<"I", "s", " ">> \o sAbstract \o <<".">>

MethodStatements ==
    {Expr,
     Leaf("ThrowStatement"),
     ThrowNew("Error", StringValue(sIsAbstract)),
     ThrowNew("Error", StringValue(sOops)),
     ThrowNew("Error", NoValue),
     ThrowNew("Error", OtherValue),
     ThrowNew("TypeError", StringValue(sIsAbstract))}

AbstractLines == {<<"@">> \o sAbstract, <<"@">> \o sSee \o <<" ", "x">>}

\* The tree of a class declared abstract or not (TypeScript's modifier).
Declared(nodes, abstract) ==
    [n \in 1..Len(nodes) |->
        IF nodes[n].type = "ClassDeclaration"
        THEN [nodes[n] EXCEPT !.abstract = abstract]
        ELSE nodes[n]]

AbstractInit ==
    /\ NoTypes
    /\ pc = "lint"
    /\ language \in Languages
    /\ \E shape \in {"method", "exportClass"},
          statements \in SeqsUpTo(MethodStatements, MaxStatements),
          tagLines \in SeqsUpTo(AbstractLines, MaxAllowedTags),
          abstract \in BOOLEAN :
          /\ abstract => language = "ts"
          /\ file = File(Declared(Tree(shape, "FunctionExpression", <<>>,
                                       Stmt("BlockStatement", statements, <<>>, <<>>)),
                                  abstract),
                         <<Comment("Block", DocValue(tagLines), 1)>>)
    /\ rules = {"classTags"}
    /\ caches = [r \in ContextRules |-> {}]
    /\ visited = {}
    /\ handed = <<>>
    /\ returned = {}
    /\ reports = <<>>
    /\ passes = 0

AbstractNext == ClassTagsValidate

SpecAbstract == AbstractInit /\ [][AbstractNext]_vars

\* The method's body throws an Error whose message mentions 'abstract'.
ThrowsAbstractError ==
    \E i \in 1..Len(TheFunction.body.block) :
        /\ TheFunction.body.block[i].type = "ThrowStatement"
        /\ TheFunction.body.block[i].argument.type = "NewExpression"
        /\ TheFunction.body.block[i].argument.callee = "Error"
        /\ TheFunction.body.block[i].argument.value.of = "string"
        /\ Includes(TheFunction.body.block[i].argument.value.text, sAbstract)

\* The method's body throws an Error of a value that is not a string.
ThrowsErrorOfOtherValue ==
    \E i \in 1..Len(TheFunction.body.block) :
        TheFunction.body.block[i].argument.value.of = "other"

\* The class tags rule was handed the docblock of a JavaScript class
\* detected as abstract whose docblock has not exactly one @abstract tag.
AbstractTagDue ==
    /\ language = "js"
    /\ \E i \in 1..Len(handed) : handed[i][1] = "classTags"
    /\ ThrowsAbstractError
    /\ Len(SelectSeq(DocumentedTags, IsAbstractTag)) # 1

OneAbstractReport ==
    /\ Len(reports) = 1
    /\ reports[1].message = (IF SelectSeq(DocumentedTags, IsAbstractTag) = <<>>
                             THEN "Abstract class ... must have @abstract tag."
                             ELSE "Abstract class ... must have only one @abstract tag.")

(***************************************************************************)
(* C19: a class detected as abstract (some method body throws an Error     *)
(* whose message mentions 'abstract') must carry exactly one @abstract     *)
(* tag: the class tags rule reports exactly one diagnostic naming the      *)
(* class when the docblock has zero or more than one @abstract tag, and it *)
(* raises no exception, whatever the shape of the thrown Error's           *)
(* arguments.                                                              *)
(***************************************************************************)
AbstractClassIsDiagnosed ==
    /\ pc # "raised"
    /\ AbstractTagDue => OneAbstractReport

\* The same for the classes whose methods throw no Error of a value that is
\* not a string.
AbstractClassIsDiagnosedForStringMessages ==
    ~ThrowsErrorOfOtherValue =>
        /\ pc # "raised"
        /\ AbstractTagDue => OneAbstractReport

(***************************************************************************)
(* The class tags rule on classes that extend `Base` or `ns.Base`, their   *)
(* docblock written with up to MaxAllowedTags tags; a fix on offer is      *)
(* applied and the file linted again.                                      *)
(***************************************************************************)
sNsBase == <<"n", "s", ".">> \o sBase

\* `@extends Base`, the tag naming another class, the tag naming the
\* member expression, the tag without an argument, and another tag.
ExtendsLines ==
    {sAtExtends \o <<" ">> \o sBase,
     sAtExtends \o <<" ">> \o sFoo,
     sAtExtends \o <<" ">> \o sNsBase,
     sAtExtends,
     <<"@">> \o sSee \o <<" ", "x">>}

ExtendsInit ==
    /\ NoTypes
    /\ \E shape \in {"method", "exportClass"}, superClass \in {sBase, sNsBase},
          tagLines \in SeqsUpTo(ExtendsLines, MaxAllowedTags) :
          StartPass(File(Extending(Tree(shape, "FunctionExpression", <<>>, EmptyBody),
                                   superClass),
                         <<Comment("Block", DocValue(tagLines), 1)>>),
                    {"classTags"})

ExtendsNext == ClassTagsValidate \/ FixAndLintAgain

SpecExtends == ExtendsInit /\ [][ExtendsNext]_vars

\* The text of the superclass of the file's class.
SuperClassOf(f) ==
    f.nodes[CHOOSE n \in 1..Len(f.nodes) : f.nodes[n].type = "ClassDeclaration"].superClass

\* The tags of the docblock of f.
TagsOf(f) == FirstBlockTags(parse(f.comments[1].value))

\* The docblock has no @extends tag, several, or one that names something
\* else than the superclass.
ExtendsTagDue ==
    \/ Len(SelectSeq(DocumentedTags, IsExtendsTag)) # 1
    \/ TagSuperClassName(SelectSeq(DocumentedTags, IsExtendsTag)[1]) # SuperClassOf(file)

\* From the docblock of f to that of g only the argument of the @extends
\* tag is rewritten, and the tag names the superclass.
OnlyExtendsArgumentRewritten(f, g) ==
    /\ Len(TagsOf(g)) = Len(TagsOf(f))
    /\ \A i \in 1..Len(TagsOf(f)) :
          IF IsExtendsTag(TagsOf(f)[i])
          THEN /\ IsExtendsTag(TagsOf(g)[i])
               /\ TagSuperClassName(TagsOf(g)[i]) = SuperClassOf(f)
          ELSE TagsOf(g)[i] = TagsOf(f)[i]

\* The pass that follows a fix reports nothing.
FixedExtendsPasses == (PassDone /\ passes > 0) => reports = <<>>

(***************************************************************************)
(* C20: a class with a superclass must carry exactly one @extends tag      *)
(* naming that superclass: the class tags rule reports a diagnostic when   *)
(* the tag is missing, duplicated or names something else, and when it     *)
(* names something else the offered fix rewrites only the tag's argument,  *)
(* so that the tag names the superclass and the check passes on the next   *)
(* run.                                                                    *)
(***************************************************************************)
ExtendsTagIsCheckedAndFixed ==
    /\ []((PassDone /\ handed # <<>> /\ passes = 0 /\ ExtendsTagDue) => reports # <<>>)
    /\ []FixedExtendsPasses
    /\ [][passes' = passes + 1 => OnlyExtendsArgumentRewritten(file, file')]_vars

\* The same for the classes that extend an identifier and whose @extends
\* tags have an argument.
ExtendsTagIsCheckedAndFixedWhenNamed ==
    /\ []((PassDone /\ handed # <<>> /\ passes = 0 /\ ExtendsTagDue) => reports # <<>>)
    /\ []((/\ SuperClassOf(file) = sBase
           /\ \A i \in 1..Len(DocumentedTags) :
                 IsExtendsTag(DocumentedTags[i]) =>
                    TagSuperClassName(DocumentedTags[i]) # <<>>)
          => FixedExtendsPasses)
    /\ [][(/\ passes' = passes + 1
           /\ SuperClassOf(file) = sBase
           /\ \A i \in 1..Len(DocumentedTags) :
                 IsExtendsTag(DocumentedTags[i]) =>
                    TagSuperClassName(DocumentedTags[i]) # <<>>)
          => OnlyExtendsArgumentRewritten(file, file')]_vars

(***************************************************************************)
(* Malformed input: declarations of every wrapper shape with no comment,   *)
(* or with one comment of any kind before one of the tokens a node starts  *)
(* at, linted by one rule.                                                 *)
(***************************************************************************)
AllRules == ContextRules \cup {"spacing"}

MalformedInit ==
    /\ NoTypes
    /\ \E shape \in Shapes, rule \in AllRules :
          \E fnType \in FnTypesOf(shape) :
             \/ StartPass(File(Tree(shape, fnType, <<>>, EmptyBody), <<>>), {rule})
             \/ \E token \in StartTokens(ShapeNodes(shape, fnType)), kind \in CommentKinds :
                   StartPass(File(Tree(shape, fnType, <<>>, EmptyBody),
                                  <<Comment(kind.type, kind.value, token)>>),
                             {rule})

MalformedNext ==
    \/ ThrowsValidate
    \/ ParamsValidate
    \/ ReturnsValidate
    \/ ClassTagsValidate
    \/ DescriptionValidate
    \/ AllowedTagsValidate
    \/ TagOrderValidate
    \/ SpacingValidate

SpecMalformed == MalformedInit /\ [][MalformedNext]_vars

\* No docblock is located for any node of the file.
NoDocblockLocated == \A n \in 1..Len(file.nodes) : getDocblock(file, n) = 0

\* The tag parser returns an empty result for every docblock located.
NothingParsed ==
    \A n \in 1..Len(file.nodes) :
        getDocblock(file, n) # 0 => parse(file.comments[getDocblock(file, n)].value) = <<>>

(***************************************************************************)
(* C21: no validator raises an exception or reports a diagnostic for       *)
(* malformed input: when no docblock is located, or the tag parser returns *)
(* an empty result for the located docblock, every validator emits zero    *)
(* diagnostics for that node.                                              *)
(***************************************************************************)
MalformedInputIsSkipped ==
    NothingParsed => (reports = <<>> /\ pc # "raised")

\* The same, when no docblock is located at all.
UndocumentedNodeIsSkipped ==
    NoDocblockLocated => (reports = <<>> /\ pc # "raised")

(***************************************************************************)
(* The per-tag fixes of the throws rule on docblocks whose @throws tag is  *)
(* written on a line of its own, on the opening line of a comment that     *)
(* closes on the next line, or in a comment of one line.                   *)
(***************************************************************************)
\* The value of `/** tag` `newline` ` */` and of `/** tag */`.
OpeningLineValues(tagLine) ==
    {<<"*", " ">> \o tagLine \o <<"\n", " ">>, <<"*", " ">> \o tagLine \o <<" ">>}

TagPlacements(tagLine) == {DocValue(<<tagLine>>)} \cup OpeningLineValues(tagLine)

PlacedInit ==
    /\ NoTypes
    /\ \E shape \in {"var", "exportVar", "assign"}, fnType \in FunctionTypes,
          line \in FixableThrowsLines :
          \E value \in TagPlacements(line) :
             StartPass(File(Tree(shape, fnType, <<>>, ThrowingBody),
                            <<Comment("Block", value, DocToken(shape))>>),
                       {"throws"})

PlacedNext == ThrowsValidate

SpecPlaced == PlacedInit /\ [][PlacedNext]_vars

\* The source line of some tag of the docblock is not found in the
\* docblock's text.
TagTextNotFound ==
    \E i \in 1..Len(DocumentedTags) :
        IndexOf(file.comments[1].value, DocumentedTags[i].source) = 0

\* A fix on offer leaves the file unchanged, or replaces the whole comment
\* by the text of one line that is not the whole comment.
IneffectiveFixOffered ==
    \E i \in 1..Len(reports) :
        /\ reports[i].fix.offered
        /\ \/ ApplyFix(file, reports[i].fix) = file
           \/ /\ reports[i].fix.range = file.comments[1].range
              /\ Len(Split(file.comments[1].value, "\n")) > 1

(***************************************************************************)
(* C22: when the exact text a fix intends to replace cannot be found in    *)
(* the current docblock text, the diagnostic is reported without an        *)
(* effective fix: no replacement is offered that leaves the text unchanged *)
(* or that overwrites a span other than the intended one.                  *)
(***************************************************************************)
UnfoundTextGetsNoFix ==
    TagTextNotFound => ~IneffectiveFixOffered

\* When the tag's line is found in the text, the fix on offer replaces that
\* line, inside the comment, and changes the file.
FoundTextGetsLineFix ==
    ~TagTextNotFound =>
        \A i \in 1..Len(reports) :
            reports[i].fix.offered =>
                /\ ApplyFix(file, reports[i].fix) # file
                /\ reports[i].fix.range[1] > file.comments[1].range[1]
                /\ reports[i].fix.range[2] < file.comments[1].range[2]

(***************************************************************************)
(* One invocation of each rule on declarations whose docblock is written   *)
(* from up to MaxLines comment lines.                                      *)
(***************************************************************************)
OnceInit ==
    /\ NoTypes
    /\ \E shape \in {"var", "exportVar", "method"}, rule \in AllRules,
          body \in SeqsUpTo(CommentLines, MaxLines) :
          \E fnType \in FnTypesOf(shape) :
             StartPass(File(Tree(shape, fnType, <<>>, EmptyBody),
                            <<Comment("Block", LinesValue(body), DocToken(shape))>>),
                       {rule})

SpecOnce == OnceInit /\ [][MalformedNext]_vars

(***************************************************************************)
(* C23: every validator (description, params, returns, throws, tag order,  *)
(* spacing, allowed tags, class tags) reports at most one diagnostic per   *)
(* invocation on one declaration: it reports the first violation found and *)
(* stops.                                                                  *)
(***************************************************************************)
OneDiagnosticPerInvocation ==
    [][Len(reports') <= Len(reports) + 1]_vars

\* The same for every rule but the spacing rule.
OneDiagnosticPerInvocationBesidesSpacing ==
    [][rules # {"spacing"} => Len(reports') <= Len(reports) + 1]_vars

(***************************************************************************)
(* The emoji linter (tools/emoji-linter/index.mjs).  A text is a sequence  *)
(* of UTF-16 code units.  "H" stands for the high surrogate \uD83D and "L" *)
(* for the low surrogate \uDE00: together they encode U+1F600, an emoji.   *)
(* "c" stands for U+00A9, an emoji of the basic plane.                     *)
(***************************************************************************)
CodeUnits == {"a", "\n", "c", "H", "L"}

Emojis == {<<"c">>, <<"H", "L">>}

\* The regular expression has the u flag: it reads the text by code points,
\* and a high surrogate followed by a low surrogate is one code point.
CodePointAt(s, i) ==
    IF s[i] = "H" /\ i < Len(s) /\ s[i + 1] = "L" THEN <<"H", "L">> ELSE <<s[i]>>

\* /\p{Emoji_Presentation}|\p{Extended_Pictographic}/gu matches one code point
emojiRegex(cp) == cp \in Emojis

\* s.lastIndexOf(ch, position), 0-based as in JavaScript; a negative position
\* counts as 0.
LastIndexOf(s, ch, position) ==
    LET from == IF position < 0 THEN 0 ELSE position
        hits == {k \in 0..(Len(s) - 1) : k <= from /\ s[k + 1] = ch}
    IN IF hits = {} THEN -1 ELSE CHOOSE k \in hits : \A j \in hits : j <= k

\* detectEmojis: the record pushed for the match at 0-based index
EmojiMatch(s, index, emoji) ==
    LET endIndex == index + Len(emoji) - 1
    IN [index     |-> index,
        emoji     |-> emoji,
        line      |-> Len(Split(Take(s, index), "\n")),
        column    |-> index - LastIndexOf(s, "\n", index - 1),
        endLine   |-> Len(Split(Take(s, endIndex), "\n")),
        endColumn |-> endIndex - LastIndexOf(s, "\n", endIndex - 1),
        message   |-> "Emoji usage detected - emojis are not allowed in code",
        severity  |-> "error"]

\* detectEmojis: the loop over emojiRegex.exec, from the 1-based position i
RECURSIVE detectFrom(_, _, _)
detectFrom(wl, s, i) ==
    IF i > Len(s) THEN <<>>
    ELSE IF emojiRegex(CodePointAt(s, i)) /\ CodePointAt(s, i) \notin wl
         THEN <<EmojiMatch(s, i - 1, CodePointAt(s, i))>>
                  \o detectFrom(wl, s, i + Len(CodePointAt(s, i)))
         ELSE detectFrom(wl, s, i + Len(CodePointAt(s, i)))

detectEmojis(wl, s) == detectFrom(wl, s, 1)

\* removeEmojis: content.replace(emojiRegex, ...), from the 1-based position i
RECURSIVE removeFrom(_, _, _)
removeFrom(wl, s, i) ==
    IF i > Len(s) THEN <<>>
    ELSE (IF emojiRegex(CodePointAt(s, i)) /\ CodePointAt(s, i) \notin wl
          THEN <<>>
          ELSE CodePointAt(s, i)) \o removeFrom(wl, s, i + Len(CodePointAt(s, i)))

removeEmojis(wl, s) == removeFrom(wl, s, 1)

MaxContent == 4

EmojiInit ==
    /\ pc = "emoji"
    /\ members = <<>>
    /\ rawType = <<>>
    /\ canonType = <<>>
    /\ realParams = <<>>
    /\ expectedTypes = <<>>
    /\ answer = NoAnswer
    /\ NoLint
    /\ whitelist \in SUBSET Emojis
    /\ content \in SeqsUpTo(CodeUnits, MaxContent)
    /\ before = content
    /\ matches = <<>>

\* lintFile: detectEmojis on the text of the file
LintFile ==
    /\ pc \in {"emoji", "fixed"}
    /\ matches' = detectEmojis(whitelist, content)
    /\ pc' = IF pc = "emoji" THEN "linted" ELSE "relinted"
    /\ UNCHANGED <<whitelist, content, before>>
    /\ UNCHANGED <<members, rawType, canonType, realParams, expectedTypes, answer>>
    /\ UNCHANGED lintVars

\* fixFile: the file is rewritten with removeEmojis of its text
FixFile ==
    /\ pc \in {"emoji", "linted"}
    /\ before' = content
    /\ content' = removeEmojis(whitelist, content)
    /\ pc' = "fixed"
    /\ UNCHANGED <<whitelist, matches>>
    /\ UNCHANGED <<members, rawType, canonType, realParams, expectedTypes, answer>>
    /\ UNCHANGED lintVars

EmojiNext == LintFile \/ FixFile

SpecEmoji == EmojiInit /\ [][EmojiNext]_vars

\* The code points of a text, in order.
RECURSIVE CodePointsFrom(_, _)
CodePointsFrom(s, i) ==
    IF i > Len(s) THEN <<>>
    ELSE <<CodePointAt(s, i)>> \o CodePointsFrom(s, i + Len(CodePointAt(s, i)))

Kept(wl, cp) == cp \notin Emojis \/ cp \in wl

\* The text with exactly the emojis that are not whitelisted deleted.
RECURSIVE KeptOf(_, _)
KeptOf(wl, cps) ==
    IF cps = <<>> THEN <<>>
    ELSE (IF Kept(wl, Head(cps)) THEN Head(cps) ELSE <<>>) \o KeptOf(wl, Tail(cps))

ExactlyTheEmojisDeleted ==
    pc \in {"fixed", "relinted"} => content = KeptOf(whitelist, CodePointsFrom(before, 1))

WellFormed(s) ==
    \A i \in 1..Len(s) :
       /\ s[i] = "H" => (i < Len(s) /\ s[i + 1] = "L")
       /\ s[i] = "L" => (i > 1 /\ s[i - 1] = "H")

\* The same for the texts a file read as UTF-8 can hold.
RemovedWellFormedTextHasNoEmojis ==
    WellFormed(before) =>
        /\ ExactlyTheEmojisDeleted
        /\ pc = "relinted" => matches = <<>>

\* No fix is on offer at the end of the pass.
NoFixOffered == \A i \in 1..Len(reports) : ~reports[i].fix.offered

(***************************************************************************)
(* C25: under a host loop that validates a docblock with a fresh context,  *)
(* applies one offered fix and parses again, every starting docblock       *)
(* reaches after finitely many passes a state in which no validator offers *)
(* a fix: the loop never cycles between texts.  A fix that gives back the  *)
(* text it was offered for is a cycle of one text, so every applied fix    *)
(* changes the text.                                                       *)
(***************************************************************************)
FixLoopNeverCycles ==
    [][passes' = passes + 1 => file' # file]_vars

\* The same for the fixes of the throws rule written on a line of their own.
ThrowsFixLoopNeverCycles ==
    [][(passes' = passes + 1 /\ rules = {"throws"}) => file' # file]_vars

\* The returns-family tags the file's docblock documents.
DocumentedReturns == SelectSeq(DocumentedTags, IsReturnsTag)

\* Exactly one `@returns {T}` tag, T canonical and not the generic object,
\* followed by no name and no description.
OneCanonicalReturns ==
    /\ Len(DocumentedReturns) = 1
    /\ DocumentedReturns[1].tag = sReturns
    /\ DocumentedReturns[1].type # <<>>
    /\ normalizeTypes(DocumentedReturns[1].type) = DocumentedReturns[1].type
    /\ DocumentedReturns[1].type # sObject
    /\ DocumentedReturns[1].name = <<>>
    /\ DocumentedReturns[1].description = <<>>

(***************************************************************************)
(* C26: when a declaration's docblock contains exactly one `@returns {T}`  *)
(* tag whose type is already canonical, is not the generic object, and is  *)
(* followed by no name or description, the returns validator reports zero  *)
(* diagnostics.                                                            *)
(***************************************************************************)
CanonicalReturnsIsSilent ==
    (PassDone /\ handed # <<>> /\ OneCanonicalReturns) => reports = <<>>

\* The lines of the comment as written in the file, delimiters included.
WrittenLines(comment) == Split(sOpen \o comment.value \o sClose, "\n")

\* The lines of the comment once the fix is applied.
FixedLines(comment, fix) == Split(FixedText(comment, fix), "\n")

\* The fix keeps the number of lines, changes at most one of them, and
\* leaves the opening and the closing delimiter in place.
ChangesOneLineOnly(comment, fix) ==
    /\ Len(FixedLines(comment, fix)) = Len(WrittenLines(comment))
    /\ Cardinality({k \in 1..Len(WrittenLines(comment)) :
                       FixedLines(comment, fix)[k] # WrittenLines(comment)[k]}) <= 1
    /\ StartsWith(FixedText(comment, fix), sOpen)
    /\ EndsWith(FixedText(comment, fix), sClose)

(***************************************************************************)
(* C27: every per-tag fix offered by the parameter and throws validators   *)
(* changes only characters inside the source line of the tag that          *)
(* triggered the diagnostic: every other line of the docblock and the      *)
(* comment's opening and closing delimiters are unchanged after the fix.   *)
(***************************************************************************)
TagFixChangesItsLineOnly ==
    \A i \in 1..Len(reports) :
        reports[i].fix.offered => ChangesOneLineOnly(file.comments[1], reports[i].fix)

\* The same when the source line of every tag is found in the docblock.
FoundTagFixChangesItsLineOnly ==
    ~TagTextNotFound =>
        \A i \in 1..Len(reports) :
            reports[i].fix.offered => ChangesOneLineOnly(file.comments[1], reports[i].fix)

NotParam(line) == ~HasParam(line)

\* The names the @param tags of a docblock text document, in order.
ParamNamesOf(value) == [i \in 1..Len(ParamsOf(value)) |-> ParamsOf(value)[i].name]

\* The lines that are not @param lines are the same, in the same order.
OtherLinesKept(value, fixed) ==
    SelectSeq(Split(fixed, "\n"), NotParam) = SelectSeq(Split(value, "\n"), NotParam)

\* As many @param lines as before, documenting the same names in order.
ParamLinesKept(value, fixed) ==
    /\ Len(SelectSeq(Split(fixed, "\n"), HasParam)) = Len(SelectSeq(Split(value, "\n"), HasParam))
    /\ ParamNamesOf(fixed) = ParamNamesOf(value)

AlignmentFixes ==
    {i \in 1..Len(reports) :
        /\ reports[i].message = "@param tags must be aligned consistently."
        /\ reports[i].fix.offered}

(***************************************************************************)
(* C28: the alignment fix preserves the docblock's structure: the          *)
(* rewritten text contains exactly as many @param lines as the original,   *)
(* in the same tag order, and every line that is not a @param tag line     *)
(* appears unchanged and in its original relative position.                *)
(***************************************************************************)
AlignmentFixPreservesStructure ==
    \A i \in AlignmentFixes :
        /\ ParamLinesKept(file.comments[1].value,
                          ApplyFix(file, reports[i].fix).comments[1].value)
        /\ OtherLinesKept(file.comments[1].value,
                          ApplyFix(file, reports[i].fix).comments[1].value)

\* The part of it about the other lines.
AlignmentFixKeepsOtherLines ==
    \A i \in AlignmentFixes :
        OtherLinesKept(file.comments[1].value,
                       ApplyFix(file, reports[i].fix).comments[1].value)

(***************************************************************************)
(* The parameters are expanded for functions whose formal parameters are   *)
(* of every kind: identifier, defaulted, object-destructured,              *)
(* array-destructured and rest.                                            *)
(***************************************************************************)
ArrayPattern(elements) == Syn("ArrayPattern", <<>>, <<>>, elements)

RestElement(argument) == Syn("RestElement", <<>>, <<>>, <<argument>>)

MaxFormals == 2

\* a;  b = 'Danny';  { k };  { k = 1 } = {};  {};  [e];  ...args
FormalParams ==
    {Identifier(<<"a">>),
     AssignmentPattern(Identifier(<<"b">>), Literal(sString, sDanny)),
     ObjectPattern(<<Property(<<"k">>, Identifier(<<"k">>))>>),
     AssignmentPattern(
         ObjectPattern(<<Property(<<"k">>,
                                  AssignmentPattern(Identifier(<<"k">>),
                                                    Literal(sNumber, <<"1">>)))>>),
         ObjectExpression(<<>>)),
     ObjectPattern(<<>>),
     ArrayPattern(<<Identifier(<<"e">>)>>),
     RestElement(Identifier(sItems))}

FormalsInit ==
    /\ pc = "params"
    /\ members = <<>>
    /\ rawType = sString
    /\ canonType = <<>>
    /\ realParams = <<>>
    /\ expectedTypes = <<>>
    /\ answer = NoAnswer
    /\ NoEmoji
    /\ \E shape \in FunctionShapes, fnType \in FunctionTypes,
          params \in SeqsUpTo(FormalParams, MaxFormals) :
          file = File(Tree(shape, fnType, params, EmptyBody), <<>>)
    /\ rules = {}
    /\ caches = [r \in ContextRules |-> {}]
    /\ visited = {}
    /\ handed = <<>>
    /\ returned = {}
    /\ language = "js"
    /\ reports = <<>>
    /\ passes = 0

FormalsNext == ExpectTypes

SpecFormals == FormalsInit /\ [][FormalsNext]_vars

\* The formal parameters of the file's function, as declared.
Formals == file.nodes[Len(file.nodes)].params

\* The formal parameter each entry of the expanded list comes from.
OriginOf(i) == CHOOSE k \in 1..Len(Formals) : Formals[k] = realParams[i].originalParam

\* Every formal parameter has an entry, and the entries are in declaration
\* order.
EveryFormalExpanded ==
    /\ \A k \in 1..Len(Formals) :
          \E i \in 1..Len(realParams) : realParams[i].originalParam = Formals[k]
    /\ \A i \in 1..Len(realParams) : \E k \in 1..Len(Formals) :
          Formals[k] = realParams[i].originalParam
    /\ \A i, j \in 1..Len(realParams) : i <= j => OriginOf(i) <= OriginOf(j)

(***************************************************************************)
(* C29: every formal parameter of a declaration (identifier, defaulted,    *)
(* object-destructured, array-destructured or rest) contributes at least   *)
(* one entry to the expanded parameter list, and entries appear in         *)
(* declaration order, so the expanded list is empty only when the          *)
(* declaration has no formal parameters.                                   *)
(***************************************************************************)
EveryFormalParameterIsExpanded ==
    pc = "expected" =>
        /\ EveryFormalExpanded
        /\ realParams = <<>> => Formals = <<>>

\* The kinds expandNodeParams has a case for.
HandledFormal(param) ==
    \/ param.type = "Identifier"
    \/ param.type = "ObjectPattern" /\ param.parts # <<>>
    \/ /\ param.type = "AssignmentPattern"
       /\ \/ param.parts[1].type = "Identifier"
          \/ param.parts[1].type = "ObjectPattern" /\ param.parts[1].parts # <<>>

\* The same for identifiers, defaults and object patterns that bind a name.
EveryHandledFormalIsExpanded ==
    (pc = "expected" /\ \A k \in 1..Len(Formals) : HandledFormal(Formals[k])) =>
        /\ EveryFormalExpanded
        /\ realParams = <<>> => Formals = <<>>

(***************************************************************************)
(* A type is canonicalized, and the result is canonicalized again, for     *)
(* type expressions written from up to MaxPieces pieces.                   *)
(***************************************************************************)
MaxPieces == 3

TypePieces ==
    {sArrayOpen, <<">">>, sBrackets, <<"|">>, <<" ">>, <<"*">>, <<"x">>,
     sString, sArray, sArrayLc, ToLowerCase(sDate), sUndefined, sConstructor}

IdempotentInit ==
    /\ pc = "type"
    /\ NoLint
    /\ members = <<>>
    /\ \E pieces \in SeqsUpTo(TypePieces, MaxPieces) : rawType = Concat(pieces)
    /\ canonType = <<>>
    /\ realParams = <<>>
    /\ expectedTypes = <<>>
    /\ answer = NoAnswer
    /\ NoEmoji

\* What normalizeTypes returned is not a string.
NotAString(value) == value \in {ObjectConstructor, ObjectPrototype}

\* normalizeTypes is called on what it returned: `type.includes` raises a
\* TypeError when that is not a string.
CanonicalizeAgain ==
    /\ pc = "typed"
    /\ IF NotAString(canonType)
       THEN /\ pc' = "raised"
            /\ UNCHANGED canonType
       ELSE /\ pc' = "retyped"
            /\ canonType' = normalizeTypes(canonType)
    /\ UNCHANGED <<members, rawType, realParams, expectedTypes, answer>>
    /\ UNCHANGED emojiVars
    /\ UNCHANGED lintVars

IdempotentNext == Canonicalize \/ CanonicalizeAgain

SpecIdempotent == IdempotentInit /\ [][IdempotentNext]_vars

(***************************************************************************)
(* C30: type canonicalization is idempotent: for every type string t,      *)
(* canonicalize(canonicalize(t)) equals canonicalize(t), so a type         *)
(* rewritten by a canonical-type fix is accepted as canonical on the next  *)
(* pass.                                                                   *)
(***************************************************************************)
CanonicalizeIsIdempotent ==
    /\ pc # "raised"
    /\ pc = "retyped" => canonType = normalizeTypes(rawType)

\* The same for the types whose canonical form is a string.
CanonicalizeIsIdempotentOnStrings ==
    ~NotAString(normalizeTypes(rawType)) =>
        /\ pc # "raised"
        /\ pc = "retyped" => canonType = normalizeTypes(rawType)

====
